---- MODULE Spec2Model ----
(***************************************************************************)
(* Model of the vibe-blog backend orchestration code:                      *)
(*   - BlogGenerator (services/blog_generator/generator.py): the LangGraph *)
(*     workflow, its two conditional routers and its two loop-body nodes;  *)
(*   - the agents' run methods the workflow threads the shared state       *)
(*     through (researcher.py, writer.py, coder.py, artist.py,             *)
(*     reviewer.py) and create_initial_state (schemas/state.py);           *)
(*   - TaskManager (services/task_service.py) driven by                    *)
(*     PipelineService.run_pipeline (services/pipeline_service.py) and a   *)
(*     concurrent cancel_task.                                             *)
(* The specifications that share the module: Spec / FairSpec (one         *)
(* workflow run), RouterSpec (the routers as pure functions over drawn     *)
(* inputs), TaskSpec (one task of the TaskManager beside run_pipeline and  *)
(* cancel_task), ManagerSpec (one TaskManager method call on a task),      *)
(* ListenerSpec (TaskSpec with a listener on the queue), MapsSpec (the     *)
(* tasks and queues maps under several threads), SingletonSpec (first     *)
(* accesses to the TaskManager singleton), PureSpec (enhance_section,      *)
(* search, create_initial_state and _deepen_content_node called on drawn   *)
(* arguments) and RefsSpec (a run from Coder on, with the references       *)
(* between sections, images and code blocks).                              *)
(***************************************************************************)
EXTENDS Integers, Sequences, FiniteSets, TLC

VARIABLES
    \* ---- one workflow run (BlogGenerator.generate) ----
    node,                     \* the node LangGraph executes next, or "END"
    state,                    \* SharedState
    max_questioning_rounds,   \* BlogGenerator.max_questioning_rounds
    max_revision_rounds,      \* BlogGenerator.max_revision_rounds
    raised,                   \* an exception escaped a node (run aborted)
    trace,                    \* history: the nodes executed so far, in order
    qverdicts,                \* history: all_sections_detailed after each Questioner
    rverdicts,                \* history: review_approved after each Reviewer
    atWrite,                  \* history: the state as Writer returned it
    result,                   \* what generate gave its caller, None while it runs
    \* ---- the routers evaluated as functions ----
    rstate,                   \* the state a router is evaluated on
    rother,                   \* a second state, for comparing two evaluations
    rcaps,                    \* the loop caps of the evaluating BlogGenerator
    rinit,                    \* history: rstate as drawn
    rdecision,                \* last evaluation: [router, on_state, on_other]
    \* ---- one call of a function of the code on drawn arguments ----
    fcall,                    \* the function called and its arguments
    fret,                     \* how the call ended and what it returned, None before
    \* ---- one task of the TaskManager ----
    task,                     \* tasks[task_id]: the task's TaskProgress
    queue,                    \* queues[task_id]: the task's event queue
    calls,                    \* the TaskManager calls run_pipeline has yet to make
    sending,                  \* the event the pipeline's current call has yet to put
    cancelling,               \* position of the thread inside cancel_task
    cancels,                  \* cancel_task calls still to come
    \* ---- one TaskManager method called on a task ----
    called,                   \* the call made: its arguments and return value
    before,                   \* history: the task and its queue before the call
    \* ---- a listener draining the task's queue ----
    received,                 \* the events the listener has taken, in order
    listener,                 \* position of the listener in its poll loop
    \* ---- the TaskManager's maps under several threads ----
    tasks,                    \* TaskManager.tasks: task id -> status, None if absent
    queues,                   \* TaskManager.queues: task id -> its Queue, None if absent
    qobj,                     \* the contents of the Queue created for each task id
    task_lock,                \* TaskManager.task_lock: the thread holding it, or None
    thr,                      \* each thread's position and locals
    hist,                     \* history: events put and got, unlocked map accesses
    \* ---- first accesses to the TaskManager singleton ----
    cls,                      \* TaskManager._instance, TaskManager._lock, _task_manager
    objs,                     \* the TaskManager objects allocated so far
    sthr                      \* each thread's position and locals

wfVars   == <<node, state, max_questioning_rounds, max_revision_rounds, raised,
             trace, qverdicts, rverdicts, atWrite, result>>
pureVars == <<fcall, fret>>
rtVars   == <<rstate, rother, rcaps, rinit, rdecision, pureVars>>
apiVars  == <<called, before>>
lsnVars  == <<received, listener>>
mapVars  == <<tasks, queues, qobj, task_lock, thr, hist>>
sglVars  == <<cls, objs, sthr>>
extVars  == <<apiVars, lsnVars, mapVars, sglVars>>
taskVars == <<task, queue, calls, sending, cancelling, cancels, extVars>>
vars     == <<wfVars, rtVars, taskVars>>

\* ------------------------------------------------------------------ bounds

\* Largest loop cap a BlogGenerator is constructed with.
MaxRounds == 2
\* Largest number of sections an outline holds.
MaxSections == 1
\* Largest number of issues one review reports.
MaxIssues == 1
\* Largest counter value a router is evaluated on (beyond the caps).
MaxCount == 3
\* Largest stage percentage send_progress is called with.
MaxPercent == 100
\* Number of events each pipeline thread sends when several tasks run.
MaxEvents == 2
\* Number of threads that access the TaskManager singleton for the first time.
MaxThreads == 2
\* Largest number of pages an outline of the pipeline holds.
MaxPages == 2
\* Largest number of chunks the outline's generation streams.
MaxChunks == 1
\* Largest number of cancel_task calls made on the task.
MaxCancels == 1

\* ------------------------------------------------------------------ values

\* Python's None and a present value.
None == << >>
Some(x) == <<x>>

Min(a, b) == IF a <= b THEN a ELSE b

\* dict.get(key, default) on a state whose keys are those of its DOMAIN.
Get(st, key, default) == IF key \in DOMAIN st THEN st[key] ELSE default

\* ReviewerAgent.review: the score used when the answer names none.
DefaultScore == 80

\* ------------------------------------------------------------- SharedState

create_initial_state ==
    [ background_knowledge  |-> None,
      outline               |-> None,
      sections              |-> << >>,
      code_blocks           |-> << >>,
      images                |-> << >>,
      question_results      |-> << >>,
      all_sections_detailed |-> FALSE,
      questioning_count     |-> 0,
      review_score          |-> 0,
      review_issues         |-> << >>,
      review_approved       |-> FALSE,
      revision_count        |-> 0,
      final_markdown        |-> None,
      error                 |-> None ]

\* ----------------------------------------------------------------- routers

should_deepen_le(st, cap) ==
    IF ~Get(st, "all_sections_detailed", TRUE)
       /\ Get(st, "questioning_count", 0) <= cap
    THEN "deepen" ELSE "continue"

_should_deepen(st, cap) ==
    IF ~Get(st, "all_sections_detailed", TRUE)
    THEN IF Get(st, "questioning_count", 0) < cap THEN "deepen" ELSE "continue"
    ELSE "continue"

should_revise_le(st, cap) ==
    IF ~Get(st, "review_approved", TRUE)
       /\ Get(st, "revision_count", 0) <= cap
    THEN "revision" ELSE "assemble"

should_revise_wrong_counter(st, cap) ==
    IF ~Get(st, "review_approved", TRUE)
       /\ Get(st, "questioning_count", 0) < cap
    THEN "revision" ELSE "assemble"

_should_revise(st, cap) ==
    IF ~Get(st, "review_approved", TRUE)
    THEN IF Get(st, "revision_count", 0) < cap THEN "revision" ELSE "assemble"
    ELSE "assemble"

\* A fixed edge that sends every loop body on to the next stage instead of back
\* to its branch point.
EdgeLoopBodyForward(n) ==
    CASE n = "researcher"     -> "planner"
      [] n = "planner"        -> "writer"
      [] n = "writer"         -> "questioner"
      [] n = "deepen_content" -> "coder"
      [] n = "coder"          -> "artist"
      [] n = "artist"         -> "reviewer"
      [] n = "revision"       -> "assembler"
      [] n = "assembler"      -> "END"

\* The add_edge calls of _build_workflow: the one successor of a node.
Edge(n) ==
    CASE n = "researcher"     -> "planner"
      [] n = "planner"        -> "writer"
      [] n = "writer"         -> "questioner"
      [] n = "deepen_content" -> "questioner"
      [] n = "coder"          -> "artist"
      [] n = "artist"         -> "reviewer"
      [] n = "revision"       -> "reviewer"
      [] n = "assembler"      -> "END"

\* The conditional edges' path maps of _build_workflow.
DeepenEdge(decision) == IF decision = "deepen" THEN "deepen_content" ELSE "coder"
ReviseEdge(decision) == IF decision = "revision" THEN "revision" ELSE "assembler"

\* The nodes on the path without loops, in edge order.
AcyclicPath ==
    <<"researcher", "planner", "writer", "questioner",
      "coder", "artist", "reviewer", "assembler">>
PathLen == Len(AcyclicPath)

\* No run of the graph executes this many nodes; it only bounds the histories.
StepLimit == PathLen + 4 * (MaxRounds + 2)

\* ------------------------------------------------------------------ agents

\* The positions 1..n as a sequence (the ids img_1..img_n, code_1..code_n).
Indices(n) == [i \in 1..n |-> i]

enhance_always_asks(original_content, vague_points) ==
    { [kind |-> "raise",  value |-> None, llm_calls |-> 0],
      [kind |-> "return", value |-> Some("enhanced"), llm_calls |-> 1],
      [kind |-> "return", value |-> Some(original_content), llm_calls |-> 1] }

\* WriterAgent.enhance_section as one call on `vague_points` points (the length
\* of the list): how it can end, what it returns and the llm.chat calls made.
\* No point: the original, at once. Otherwise the prompt is rendered (outside
\* the try: it can raise), then llm.chat is called once: its answer is
\* returned, or the original when llm.chat raised.
enhance_section_call(original_content, vague_points) ==
    IF vague_points = 0
    THEN { [kind |-> "return", value |-> Some(original_content), llm_calls |-> 0] }
    ELSE { [kind |-> "raise",  value |-> None, llm_calls |-> 0],
           [kind |-> "return", value |-> Some("enhanced"), llm_calls |-> 1],
           [kind |-> "return", value |-> Some(original_content), llm_calls |-> 1] }

\* WriterAgent.enhance_section: the contents it can return for a section holding
\* `content` when asked about `vague_points` points. None to ask about: the
\* original; otherwise the model's answer, or the original when the call fails.
enhance_section(content, vague_points) ==
    { o.value[1] : o \in { x \in enhance_section_call(content, vague_points)
                             : x.kind = "return" } }

\* The loops of _deepen_content_node and _revision_node over `points`
\* ([section_id, vague_points] each): the first section with that id has its
\* content replaced by enhance_section's result. All the ways the loop can end
\* when no call raises: the section list and the enhance_section calls made
\* (`made` being those made before this point).
RECURSIVE EnhanceLoop(_, _, _)
EnhanceLoop(secs, points, made) ==
    IF points = << >> THEN { [sections |-> secs, calls |-> made] }
    ELSE LET p == Head(points)
             hits == {i \in DOMAIN secs : secs[i].id = p.section_id}
         IN  IF hits = {} THEN EnhanceLoop(secs, Tail(points), made)
             ELSE LET i == CHOOSE j \in hits : \A k \in hits : j <= k
                      call == [section |-> i, section_id |-> p.section_id,
                               vague_points |-> p.vague_points,
                               asked |-> Get(p, "asked", << >>)]
                  IN  UNION { EnhanceLoop([secs EXCEPT ![i].content = c], Tail(points),
                                          Append(made, call))
                              : c \in enhance_section(secs[i].content, p.vague_points) }

\* All section lists that can result from the loop.
EnhanceEach(secs, points) == { r.sections : r \in EnhanceLoop(secs, points, << >>) }

\* ResearcherAgent.run: fills the research fields (kept here as one field).
ResearcherRun(st) == [st EXCEPT !.background_knowledge = Some("summary")]

\* PlannerAgent.run: an outline of n sections (ids 1..n), or no outline, with or
\* without the failure recorded in error.
PlannerRun(st) ==
    { [st EXCEPT !.outline = Some(n)] : n \in 0..MaxSections }
    \cup { st, [st EXCEPT !.error = Some("planner")] }

\* WriterAgent.run.
WriterRun(st) ==
    IF st.error # None THEN {st}
    ELSE IF st.outline = None THEN {[st EXCEPT !.error = Some("no outline")]}
    ELSE LET n == st.outline[1]
             written(k) == [i \in 1..k |->
                              [id |-> i, content |-> "written"]]
         IN  { [st EXCEPT !.sections = written(n)] }
             \cup { [st EXCEPT !.sections = written(k),
                               !.error = Some("section failed")] : k \in 0..(n - 1) }

\* QuestionerAgent.run: inert once error is set; otherwise one result per section
\* and all_sections_detailed = every result is detailed enough.
QuestionKinds ==
    { [is_detailed_enough |-> TRUE,  vague_points |-> 0],
      [is_detailed_enough |-> FALSE, vague_points |-> 0],
      [is_detailed_enough |-> FALSE, vague_points |-> 1] }

QuestionerRun(st) ==
    IF st.error # None THEN {st}
    ELSE { [st EXCEPT
              !.question_results =
                  [i \in DOMAIN st.sections |->
                      [section_id |-> st.sections[i].id,
                       is_detailed_enough |-> f[i].is_detailed_enough,
                       vague_points |-> f[i].vague_points]],
              !.all_sections_detailed =
                  \A i \in DOMAIN st.sections : f[i].is_detailed_enough]
           : f \in [DOMAIN st.sections -> QuestionKinds] }

sections_to_deepen_all(st) == Get(st, "question_results", << >>)

\* sections_to_deepen of _deepen_content_node: the question results that are
\* not detailed enough, in order.
sections_to_deepen(st) ==
    SelectSeq(Get(st, "question_results", << >>), LAMBDA r : ~r.is_detailed_enough)

deepen_without_increment(st) ==
    { [st EXCEPT !.sections = secs]
      : secs \in EnhanceEach(st.sections, sections_to_deepen(st)) }

\* BlogGenerator._deepen_content_node.
_deepen_content_node(st) ==
    LET counted == [st EXCEPT !.questioning_count = Get(st, "questioning_count", 0) + 1]
    IN  { [counted EXCEPT !.sections = secs]
          : secs \in EnhanceEach(counted.sections, sections_to_deepen(st)) }

\* enhance_section renders its prompt (get_prompt_manager, render_writer_enhance)
\* outside its try block, so a call with vague points can raise (whatever the
\* content). The states a
\* loop over `points` has reached when the call for one of them raises: the
\* points before it are dealt with, st being the state the loop started on.
ContentWorkRaises(st, points) ==
    UNION { { [st EXCEPT !.sections = secs]
              : secs \in EnhanceEach(st.sections, SubSeq(points, 1, k - 1)) }
            : k \in { j \in DOMAIN points :
                         /\ \E o \in enhance_section_call("", points[j].vague_points)
                                : o.kind = "raise"
                         /\ \E i \in DOMAIN st.sections :
                                st.sections[i].id = points[j].section_id } }

\* _deepen_content_node when its content work raises: the state it was working on.
deepen_raises_uncounted(st) ==
    ContentWorkRaises(st, sections_to_deepen(st))
_deepen_content_raises(st) ==
    LET counted == [st EXCEPT !.questioning_count = Get(st, "questioning_count", 0) + 1]
    IN  ContentWorkRaises(counted, sections_to_deepen(st))

revision_resets_questioning(st) ==
    { [st EXCEPT !.revision_count = Get(st, "revision_count", 0) + 1,
                 !.questioning_count = 0] }

revision_points_unreframed(st) ==
    [i \in DOMAIN Get(st, "review_issues", << >>) |->
        [section_id |-> Get(st.review_issues[i], "section_id", ""),
         vague_points |-> 0, asked |-> << >>]]

\* _revision_node, what it asks enhance_section for each review issue: the
\* section the issue names and a list of one vague point whose issue is the
\* issue's description and whose question is its suggestion.
revision_points(st) ==
    [i \in DOMAIN Get(st, "review_issues", << >>) |->
        [section_id |-> Get(st.review_issues[i], "section_id", ""),
         vague_points |-> 1,
         asked |-> <<[issue |-> Get(st.review_issues[i], "description", ""),
                      question |-> Get(st.review_issues[i], "suggestion", "")]>>]]

\* _revision_node when its content work raises: the state it was working on.
_revision_raises(st) ==
    LET counted == [st EXCEPT !.revision_count = Get(st, "revision_count", 0) + 1]
    IN  ContentWorkRaises(counted, revision_points(st))

\* CoderAgent.run: code_blocks is rebuilt with one entry per placeholder found in
\* the sections' contents whose generate_code call succeeded. At most one
\* placeholder per section is drawn; the per-section code_ids are not tracked.
CoderRun(st) ==
    { [st EXCEPT !.code_blocks = [i \in 1..c |-> "code"]]
      : c \in 0..Len(st.sections) }

\* ArtistAgent.run on a state that has an outline: images is rebuilt with one
\* entry per outline section that asks for an image and per placeholder in the
\* sections' contents whose generate_image call succeeded, with ids img_1, img_2,
\* ... in generation order. The per-section image_ids are not tracked.
ArtistRun(st) ==
    { [st EXCEPT !.images = Indices(m)]
      : m \in 0..(st.outline[1] + Len(st.sections)) }

\* ReviewerAgent.review: what a review can answer. The answer's fields are the
\* model's; a failed call or an unparsable answer gives score 80, approved, no
\* issues. Drawn: an approving review scores DefaultScore, a rejecting one 0.
Issues == [section_id : 1..MaxSections]
RECURSIVE SeqsUpTo(_, _)
SeqsUpTo(S, n) ==
    IF n = 0 THEN {<< >>}
    ELSE SeqsUpTo(S, n - 1)
         \cup { Append(q, x) : q \in {r \in SeqsUpTo(S, n - 1) : Len(r) = n - 1}, x \in S }
Reviews ==
    { [score |-> IF a THEN DefaultScore ELSE 0, approved |-> a, issues |-> i]
      : a \in BOOLEAN, i \in SeqsUpTo(Issues, MaxIssues) }

\* ReviewerAgent.run.
ReviewerRun(st) ==
    { [st EXCEPT !.review_score = r.score,
                 !.review_approved = r.approved,
                 !.review_issues = r.issues] : r \in Reviews }

\* BlogGenerator._revision_node.
_revision_node(st) ==
    LET counted == [st EXCEPT !.revision_count = Get(st, "revision_count", 0) + 1]
    IN  { [counted EXCEPT !.sections = secs]
          : secs \in EnhanceEach(counted.sections, revision_points(st)) }

\* AssemblerAgent.run: inert once error is set; otherwise renders the document.
AssemblerRun(st) ==
    IF st.error # None THEN st ELSE [st EXCEPT !.final_markdown = Some("markdown")]

\* ------------------------------------------------------- the workflow graph

\* The parts of the module the workflow run leaves alone.
PureIdle == fcall = None /\ fret = None
RoutersIdle ==
    /\ rstate = None /\ rother = None /\ rinit = None /\ rcaps = None
    /\ rdecision = None
RouterIdle == RoutersIdle /\ PureIdle
ApiIdle == called = None /\ before = None
LsnIdle == received = << >> /\ listener = "idle"
MapIdle ==
    /\ tasks = None /\ queues = None /\ qobj = None /\ task_lock = None
    /\ thr = None /\ hist = None
SglIdle == cls = None /\ objs = None /\ sthr = None
ExtIdle == ApiIdle /\ LsnIdle /\ MapIdle /\ SglIdle
TaskIdle ==
    /\ task = None /\ queue = << >> /\ calls = << >> /\ sending = None
    /\ cancelling = "idle" /\ cancels = 0
    /\ ExtIdle

\* BlogGenerator.__init__ and generate up to app.invoke: the caps are the
\* constructor's arguments, the state is create_initial_state's, START -> researcher.
Init ==
    /\ node = "researcher"
    /\ state = create_initial_state
    /\ max_questioning_rounds \in 0..MaxRounds
    /\ max_revision_rounds \in 0..MaxRounds
    /\ raised = FALSE
    /\ trace = << >>
    /\ qverdicts = << >>
    /\ rverdicts = << >>
    /\ atWrite = None
    /\ result = None
    /\ RouterIdle
    /\ TaskIdle

\* LangGraph runs node `n`: it is the one to run, no exception has ended the run.
Runs(n) ==
    /\ node = n
    /\ ~raised
    /\ Len(trace) < StepLimit
    /\ trace' = Append(trace, n)
    /\ UNCHANGED <<max_questioning_rounds, max_revision_rounds, result, rtVars,
                   taskVars>>

\* _researcher_node, edge researcher -> planner.
ResearcherStep ==
    /\ Runs("researcher")
    /\ state' = ResearcherRun(state)
    /\ node' = Edge("researcher")
    /\ UNCHANGED <<raised, qverdicts, rverdicts, atWrite>>

\* _planner_node, edge planner -> writer.
PlannerStep ==
    /\ Runs("planner")
    /\ state' \in PlannerRun(state)
    /\ node' = Edge("planner")
    /\ UNCHANGED <<raised, qverdicts, rverdicts, atWrite>>

\* _writer_node, edge writer -> questioner.
WriterStep ==
    /\ Runs("writer")
    /\ state' \in WriterRun(state)
    /\ atWrite' = Some(state')
    /\ node' = Edge("writer")
    /\ UNCHANGED <<raised, qverdicts, rverdicts>>

\* _questioner_node, then the conditional edge on _should_deepen.
QuestionerStep ==
    /\ Runs("questioner")
    /\ state' \in QuestionerRun(state)
    /\ qverdicts' = Append(qverdicts, state'.all_sections_detailed)
    /\ node' = DeepenEdge(_should_deepen(state', max_questioning_rounds))
    /\ UNCHANGED <<raised, rverdicts, atWrite>>

\* _deepen_content_node, edge deepen_content -> questioner.
DeepenStep ==
    /\ Runs("deepen_content")
    /\ \/ /\ state' \in _deepen_content_node(state)
          /\ node' = Edge("deepen_content")
          /\ UNCHANGED raised
       \/ /\ state' \in _deepen_content_raises(state)
          /\ raised' = TRUE
          /\ UNCHANGED node
    /\ UNCHANGED <<qverdicts, rverdicts, atWrite>>

\* _coder_node, edge coder -> artist.
CoderStep ==
    /\ Runs("coder")
    /\ state' \in CoderRun(state)
    /\ node' = Edge("coder")
    /\ UNCHANGED <<raised, qverdicts, rverdicts, atWrite>>

\* _artist_node, edge artist -> reviewer. ArtistAgent.run reads
\* state.get('outline', {}).get('sections', []); the key outline is always present,
\* so a state without an outline gives None.get: AttributeError, which nothing catches.
ArtistStep ==
    /\ Runs("artist")
    /\ \/ /\ state.outline # None
          /\ state' \in ArtistRun(state)
          /\ node' = Edge("artist")
          /\ UNCHANGED raised
       \/ /\ state.outline = None
          /\ raised' = TRUE
          /\ UNCHANGED <<state, node>>
    /\ UNCHANGED <<qverdicts, rverdicts, atWrite>>

\* _reviewer_node, then the conditional edge on _should_revise.
ReviewerStep ==
    /\ Runs("reviewer")
    /\ state' \in ReviewerRun(state)
    /\ rverdicts' = Append(rverdicts, state'.review_approved)
    /\ node' = ReviseEdge(_should_revise(state', max_revision_rounds))
    /\ UNCHANGED <<raised, qverdicts, atWrite>>

\* _revision_node, edge revision -> reviewer.
RevisionStep ==
    /\ Runs("revision")
    /\ \/ /\ state' \in _revision_node(state)
          /\ node' = Edge("revision")
          /\ UNCHANGED raised
       \/ /\ state' \in _revision_raises(state)
          /\ raised' = TRUE
          /\ UNCHANGED node
    /\ UNCHANGED <<qverdicts, rverdicts, atWrite>>

\* _assembler_node, edge assembler -> END.
AssemblerStep ==
    /\ Runs("assembler")
    /\ state' = AssemblerRun(state)
    /\ node' = Edge("assembler")
    /\ UNCHANGED <<raised, qverdicts, rverdicts, atWrite>>

\* generate after app.invoke: the dict returned when the graph reached END, and
\* the one the `except Exception` branch returns when a node raised.
GenerateResult(final_state, exception) ==
    IF exception
    THEN [kind |-> "return",
          value |-> [success |-> FALSE, markdown |-> None, error |-> Some("str(e)")]]
    ELSE [kind |-> "return",
          value |-> [success |-> TRUE,
                     markdown |-> Get(final_state, "final_markdown", None),
                     error |-> None]]

GenerateReturns ==
    /\ result = None
    /\ node = "END" \/ raised
    /\ result' = Some(GenerateResult(state, raised))
    /\ UNCHANGED <<node, state, max_questioning_rounds, max_revision_rounds, raised,
                   trace, qverdicts, rverdicts, atWrite, rtVars, taskVars>>

Next ==
    \/ ResearcherStep
    \/ PlannerStep
    \/ WriterStep
    \/ QuestionerStep
    \/ DeepenStep
    \/ CoderStep
    \/ ArtistStep
    \/ ReviewerStep
    \/ RevisionStep
    \/ AssemblerStep
    \/ GenerateReturns

Spec == Init /\ [][Next]_vars

\* app.invoke runs the graph to its end on the calling thread: as long as a node
\* is due, one runs.
FairSpec == Spec /\ WF_vars(Next)

\* ------------------------------------------------ properties of a workflow run

Last(q) == q[Len(q)]
Occurrences(q, x) == Cardinality({i \in DOMAIN q : q[i] = x})
\* The number of FALSE verdicts before the first TRUE one.
LeadingFalse(q) ==
    IF \A i \in DOMAIN q : ~q[i] THEN Len(q)
    ELSE (CHOOSE i \in DOMAIN q : q[i] /\ \A j \in 1..(i - 1) : ~q[j]) - 1
\* Every Questioner verdict so far was "not detailed enough" and every Reviewer
\* verdict "not approved".
AllVerdictsNegative ==
    /\ \A i \in DOMAIN qverdicts : ~qverdicts[i]
    /\ \A i \in DOMAIN rverdicts : ~rverdicts[i]
\* Writer has returned and left state.error set.
WriteLeftError == atWrite # None /\ atWrite[1].error # None

\* C1: in every reachable state questioning_count <= max_questioning_rounds and
\* revision_count <= max_revision_rounds, and whenever Deepen (Revise) is the
\* node about to run its counter is still below the cap, whatever the verdicts.
CountersWithinCaps ==
    /\ state.questioning_count <= max_questioning_rounds
    /\ state.revision_count <= max_revision_rounds
    /\ (node = "deepen_content" /\ ~raised)
           => state.questioning_count < max_questioning_rounds
    /\ (node = "revision" /\ ~raised)
           => state.revision_count < max_revision_rounds

\* C1 witness: a finished run whose two counters stand at their (positive) caps
\* while the last verdicts are still "not detailed" and "not approved".
CapsReachedUnsatisfied ==
    /\ node = "END"
    /\ max_questioning_rounds > 0 /\ state.questioning_count = max_questioning_rounds
    /\ max_revision_rounds > 0 /\ state.revision_count = max_revision_rounds
    /\ ~state.all_sections_detailed /\ ~state.review_approved

\* C2: a run in which every step returns (no node raises) eventually reaches END,
\* for every sequence of verdicts and also when Writer left state.error set.
RunTerminates == ([]~raised) => <>(node = "END")

\* C2 witness: a run has reached END with state.error set by Writer and with both
\* verdicts unsatisfied to the end.
EndReachedWithError ==
    /\ node = "END" /\ WriteLeftError
    /\ AllVerdictsNegative
    /\ max_questioning_rounds = MaxRounds /\ max_revision_rounds = MaxRounds

\* C5 as claimed: a run whose verdicts are all negative has reached END within
\* max_questioning_rounds + max_revision_rounds + L node executions.
EndWithinCapsPlusPath ==
    (node = "END" /\ AllVerdictsNegative)
        => Len(trace) <= max_questioning_rounds + max_revision_rounds + PathLen

\* C5 amended: each loop round executes two nodes (the loop body and the branch
\* node again), so a run whose verdicts are all negative never executes more than
\* 2 * max_questioning_rounds + 2 * max_revision_rounds + L nodes, and when it
\* has executed that many it is at END.
EndWithinTwiceCapsPlusPath ==
    LET bound == 2 * max_questioning_rounds + 2 * max_revision_rounds + PathLen
    IN  AllVerdictsNegative =>
            /\ Len(trace) <= bound
            /\ Len(trace) = bound => node = "END"
            /\ node = "END" => Len(trace) = bound

\* C5 witness: an all-negative run with both caps at MaxRounds is at END.
AllNegativeRunEnded ==
    /\ node = "END" /\ AllVerdictsNegative
    /\ max_questioning_rounds = MaxRounds /\ max_revision_rounds = MaxRounds
    /\ Len(trace) = PathLen + 4 * MaxRounds

\* The successors the claimed shape allows after each node.
ShapeSuccessors(n) ==
    CASE n = "researcher"     -> {"planner"}
      [] n = "planner"        -> {"writer"}
      [] n = "writer"         -> {"questioner"}
      [] n = "questioner"     -> {"deepen_content", "coder"}
      [] n = "deepen_content" -> {"questioner"}
      [] n = "coder"          -> {"artist"}
      [] n = "artist"         -> {"reviewer"}
      [] n = "reviewer"       -> {"revision", "assembler"}
      [] n = "revision"       -> {"reviewer"}
      [] n = "assembler"      -> {"END"}
OnceNodes == {"researcher", "planner", "writer", "coder", "artist", "assembler"}

\* C6: the executed nodes form researcher, planner, writer, questioner,
\* (deepen_content, questioner)*, coder, artist, reviewer, (revision, reviewer)*,
\* assembler, END: the trace starts at researcher and follows the shape's
\* successors, the node due next is one of them, a loop body is entered from and
\* returns to its branch node, no depth-loop node follows coder, and the six
\* straight-line nodes run at most once, exactly once in a run that reached END.
TraceHasShape ==
    /\ trace # << >> => trace[1] = "researcher"
    /\ trace = << >> => node = "researcher"
    /\ \A i \in 1..(Len(trace) - 1) : trace[i + 1] \in ShapeSuccessors(trace[i])
    /\ (trace # << >> /\ ~raised) => node \in ShapeSuccessors(Last(trace))
    /\ \A i \in DOMAIN trace :
          /\ trace[i] = "deepen_content" => i > 1 /\ trace[i - 1] = "questioner"
          /\ trace[i] = "revision" => i > 1 /\ trace[i - 1] = "reviewer"
    /\ \A i, j \in DOMAIN trace :
          (i < j /\ trace[i] = "coder") => trace[j] \notin {"questioner", "deepen_content"}
    /\ \A n \in OnceNodes : Occurrences(trace, n) <= 1
    /\ node = "END" => /\ Last(trace) = "assembler"
                       /\ \A n \in OnceNodes : Occurrences(trace, n) = 1

\* C6 witness: a run that went round both loops has reached END.
BothLoopsRunEnded ==
    /\ node = "END"
    /\ Occurrences(trace, "deepen_content") = MaxRounds
    /\ Occurrences(trace, "revision") = MaxRounds

\* C7 as claimed: once Writer has left state.error set, every later step returns
\* the state unchanged, so the state always equals the one Writer returned.
InertAfterWriteError == WriteLeftError => state = atWrite[1]

\* C8: once the depth loop is left (Coder is due or has run), questioning_count
\* equals min(n, max_questioning_rounds), n being the number of "not detailed
\* enough" verdicts before the first "detailed enough" one; and a "detailed
\* enough" verdict sends the graph to Coder.
DepthLoopCount ==
    LET n == LeadingFalse(qverdicts)
        inDepthLoop == node \in {"researcher", "planner", "writer",
                                 "questioner", "deepen_content"}
    IN  /\ ~inDepthLoop => state.questioning_count = Min(n, max_questioning_rounds)
        /\ (qverdicts # << >> /\ Last(qverdicts) /\ Last(trace) = "questioner")
              => node = "coder" /\ state.questioning_count = n

\* C8 witness: cap 2, verdicts not detailed, not detailed, detailed; the count is
\* 2 and Coder is due.
TwoRoundsThenDetailed ==
    /\ max_questioning_rounds = 2
    /\ qverdicts = <<FALSE, FALSE, TRUE>>
    /\ state.questioning_count = 2
    /\ node = "coder"

\* C20 as claimed: in every state of a run, the initial one included,
\* all_sections_detailed is true exactly when every entry of question_results
\* has is_detailed_enough = true (so it is true while question_results is empty).
DetailedIffEveryResultDetailed ==
    state.all_sections_detailed
        <=> (\A i \in DOMAIN state.question_results :
                 state.question_results[i].is_detailed_enough)

\* C22 as claimed: an exception that escapes a step's run method reaches the
\* caller of generate as the raised exception, not as a returned value.
EscapedExceptionReachesCaller ==
    (raised /\ result # None) => result[1].kind = "raise"

\* C23 as claimed: the error field of what generate returns is non-empty exactly
\* when state.error was set during the run.
ResultCarriesStateError ==
    result # None => (result[1].value.error # None <=> state.error # None)

\* C28: questioning_count is changed only by Deepen and revision_count only by
\* Revise; every other step (and the router evaluated in it) leaves both as they
\* are, neither ever decreases, Revise leaves questioning_count and Deepen
\* leaves revision_count unchanged.
CountersChangedOnlyByLoopBodies ==
    [][/\ state'.questioning_count # state.questioning_count
           => /\ node = "deepen_content"
              /\ state'.questioning_count > state.questioning_count
              /\ state'.revision_count = state.revision_count
       /\ state'.revision_count # state.revision_count
           => /\ node = "revision"
              /\ state'.revision_count > state.revision_count
              /\ state'.questioning_count = state.questioning_count]_vars

\* C28 witness: a run that went through both loop bodies has ended with both
\* counters raised.
BothCountersRaisedAtEnd ==
    /\ node = "END" /\ result # None
    /\ state.questioning_count > 0 /\ state.revision_count > 0

\* C29: each execution of Deepen raises questioning_count by exactly 1 and each
\* execution of Revise raises revision_count by exactly 1, whatever the number
\* of sections or issues it deals with, and also when its content work raises:
\* the counters always equal the numbers of executions begun.
CountersCountExecutions ==
    /\ state.questioning_count = Occurrences(trace, "deepen_content")
    /\ state.revision_count = Occurrences(trace, "revision")

\* C29 witness: the content work of the second Deepen raised and the counter
\* shows both rounds.
SecondDeepenRaisedCounted ==
    /\ raised /\ node = "deepen_content"
    /\ Occurrences(trace, "deepen_content") = 2
    /\ state.questioning_count = 2

\* ------------------------------------------------ the routers as functions

WorkflowIdle ==
    /\ node = "idle" /\ state = None
    /\ max_questioning_rounds = 0 /\ max_revision_rounds = 0
    /\ raised = FALSE /\ trace = << >> /\ qverdicts = << >> /\ rverdicts = << >>
    /\ atWrite = None /\ result = None

\* The states a router is evaluated on: create_initial_state's keys, any verdicts,
\* any counter values (also beyond the caps), with and without an error.
RouterInputs ==
    { [create_initial_state EXCEPT
          !.all_sections_detailed = d, !.questioning_count = q,
          !.review_approved = a, !.revision_count = r, !.error = e]
      : d \in BOOLEAN, q \in 0..MaxCount, a \in BOOLEAN, r \in 0..MaxCount,
        e \in {None, Some("failed")} }

RouterInit ==
    /\ rstate \in RouterInputs
    /\ rother = rstate
    /\ rinit = rstate
    /\ rcaps \in [max_questioning_rounds : 0..MaxRounds,
                  max_revision_rounds : 0..MaxRounds]
    /\ rdecision = None
    /\ PureIdle
    /\ WorkflowIdle
    /\ TaskIdle

\* self._should_deepen(state), on rstate and on any other state (one evaluation
\* per drawn input: a router keeps nothing between calls).
EvalShouldDeepen ==
    /\ rdecision = None
    /\ \E other \in RouterInputs :
          /\ rother' = other
          /\ rdecision' = Some([router   |-> "_should_deepen",
                                on_state |-> _should_deepen(rstate, rcaps.max_questioning_rounds),
                                on_other |-> _should_deepen(other, rcaps.max_questioning_rounds)])
    /\ UNCHANGED <<rstate, rinit, rcaps, pureVars, wfVars, taskVars>>

\* self._should_revise(state), on rstate and on any other state.
EvalShouldRevise ==
    /\ rdecision = None
    /\ \E other \in RouterInputs :
          /\ rother' = other
          /\ rdecision' = Some([router   |-> "_should_revise",
                                on_state |-> _should_revise(rstate, rcaps.max_revision_rounds),
                                on_other |-> _should_revise(other, rcaps.max_revision_rounds)])
    /\ UNCHANGED <<rstate, rinit, rcaps, pureVars, wfVars, taskVars>>

RouterNext == EvalShouldDeepen \/ EvalShouldRevise

RouterSpec == RouterInit /\ [][RouterNext]_vars

Evaluated(router) == rdecision # None /\ rdecision[1].router = router

\* C3: _should_deepen returns "deepen" exactly when all_sections_detailed is false
\* and questioning_count < max_questioning_rounds, "continue" otherwise; with
\* max_questioning_rounds = 0 it never returns "deepen".
DeepenRule ==
    Evaluated("_should_deepen") =>
        LET cap == rcaps.max_questioning_rounds
            rule(st) == IF st.all_sections_detailed = FALSE /\ st.questioning_count < cap
                        THEN "deepen" ELSE "continue"
        IN  /\ rdecision[1].on_state = rule(rstate)
            /\ rdecision[1].on_other = rule(rother)
            /\ cap = 0 => rdecision[1].on_state # "deepen" /\ rdecision[1].on_other # "deepen"

\* C3 witness: with cap 0 a "not detailed" state with count 0 is sent on to Coder.
DeepenRefusedAtCapZero ==
    /\ Evaluated("_should_deepen")
    /\ rcaps.max_questioning_rounds = 0
    /\ ~rstate.all_sections_detailed /\ rstate.questioning_count = 0
    /\ rdecision[1].on_state = "continue"

\* C4: _should_revise returns "revision" exactly when review_approved is false and
\* revision_count < max_revision_rounds, "assemble" otherwise; with
\* max_revision_rounds = 0 it never returns "revision".
ReviseRule ==
    Evaluated("_should_revise") =>
        LET cap == rcaps.max_revision_rounds
            rule(st) == IF st.review_approved = FALSE /\ st.revision_count < cap
                        THEN "revision" ELSE "assemble"
        IN  /\ rdecision[1].on_state = rule(rstate)
            /\ rdecision[1].on_other = rule(rother)
            /\ cap = 0 => rdecision[1].on_state # "revision" /\ rdecision[1].on_other # "revision"

\* C4 witness: a rejected review at the cap is assembled, one below it is revised.
ReviseAtAndBelowCap ==
    /\ Evaluated("_should_revise")
    /\ rcaps.max_revision_rounds = MaxRounds
    /\ ~rstate.review_approved /\ rstate.revision_count = MaxRounds
    /\ rdecision[1].on_state = "assemble"
    /\ ~rother.review_approved /\ rother.revision_count = MaxRounds - 1
    /\ rdecision[1].on_other = "revision"

\* C9: evaluating a router leaves the state as it was, and two states that agree
\* on (all_sections_detailed, questioning_count), resp. (review_approved,
\* revision_count), get the same decision under the same caps, whatever their
\* other fields hold.
RoutersPureAndDeterministic ==
    /\ rstate = rinit
    /\ Evaluated("_should_deepen") =>
          ((rstate.all_sections_detailed = rother.all_sections_detailed
            /\ rstate.questioning_count = rother.questioning_count)
              => rdecision[1].on_state = rdecision[1].on_other)
    /\ Evaluated("_should_revise") =>
          ((rstate.review_approved = rother.review_approved
            /\ rstate.revision_count = rother.revision_count)
              => rdecision[1].on_state = rdecision[1].on_other)

\* C9 witness: two states that agree on (review_approved, revision_count) and
\* differ in questioning_count, all_sections_detailed and error were both sent
\* to revision.
SameDecisionOnDifferentStates ==
    /\ Evaluated("_should_revise")
    /\ rstate.review_approved = rother.review_approved
    /\ rstate.revision_count = rother.revision_count
    /\ rstate.questioning_count # rother.questioning_count
    /\ rstate.all_sections_detailed # rother.all_sections_detailed
    /\ rstate.error # rother.error
    /\ rdecision[1].on_state = "revision" /\ rdecision[1].on_other = "revision"

\* ------------------------------------------------------------- TaskManager

stage_weights_uniform(stage) == 20
\* send_progress: the stage_weights table.
StageWeight(stage) ==
    CASE stage = "analyze"  -> 10
      [] stage = "metaphor" -> 15
      [] stage = "outline"  -> 20
      [] stage = "content"  -> 30
      [] stage = "image"    -> 25
      [] OTHER              -> 0
Stages == {"analyze", "metaphor", "outline", "content", "image"}

RECURSIVE SumWeights(_)
SumWeights(S) ==
    IF S = {} THEN 0
    ELSE LET x == CHOOSE y \in S : TRUE IN StageWeight(x) + SumWeights(S \ {x})

\* create_task: TaskProgress(task_id, status="pending") (results: the stages whose
\* entry has completed = True).
NewTaskProgress ==
    [ status |-> "pending", current_stage |-> "", stage_progress |-> 0,
      overall_progress |-> 0, results |-> {}, outputs |-> None, error |-> None ]

\* One TaskManager call of the pipeline thread.
Call(op, stage, progress, recoverable) ==
    [op |-> op, stage |-> stage, progress |-> progress, recoverable |-> recoverable,
     message |-> ""]
Progress(stage, percent) == Call("send_progress", stage, percent, FALSE)
Result(stage) == Call("send_result", stage, 0, FALSE)
ErrorWith(stage, message, recoverable) ==
    [Call("send_error", stage, 0, recoverable) EXCEPT !.message = message]
Error(stage, recoverable) == ErrorWith(stage, "str(e)", recoverable)
\* run_pipeline's return statement: return {'success': ...}.
Return(success) == [op |-> "return", success |-> success]

\* run_pipeline: the TaskManager calls of one execution that meets no exception,
\* in order, and the return that ends it. chunks: the chunks the outline's generation streams; outline: "none"
\* (no or unparsable answer), "no_pages" or "ok"; n: the outline's pages;
\* image: "unavailable" (no image service), "no_description", "generated",
\* "nothing" (generate returned None) or "failed" (generate raised).
run_pipeline(chunks, outline, n, image) ==
    <<Call("set_running", "", 0, FALSE),
      Progress("analyze", 10), Progress("analyze", 100), Result("analyze"),
      Progress("metaphor", 10), Progress("metaphor", 100), Result("metaphor"),
      Progress("outline", 10)>>
    \o [i \in 1..chunks |-> Call("send_stream", "outline", 0, FALSE)]
    \o (IF outline # "ok" THEN <<Error("outline", FALSE), Return(FALSE)>>
        ELSE <<Progress("outline", 100), Result("outline"), Progress("content", 10)>>
             \o [k \in 1..(2 * n) |->
                   IF k % 2 = 1 THEN Progress("content", 10 + ((((k + 1) \div 2) * 80) \div n))
                   ELSE Result("content")]
             \o <<Progress("content", 100)>>
             \o (IF image = "unavailable" THEN << >>
                 ELSE <<Progress("image", 10)>>
                      \o (IF image = "no_description" THEN << >>
                          ELSE <<Progress("image", 90)>>
                               \o (CASE image = "generated" -> <<Result("image")>>
                                     [] image = "failed"    -> <<Error("image", TRUE)>>
                                     [] OTHER               -> << >>))
                      \o <<Progress("image", 100)>>)
             \o <<Call("send_complete", "", 0, FALSE), Return(TRUE)>>)

\* send_error: `if not recoverable: task.status = "failed"`.
error_status_always_failed(status, recoverable) == "failed"
ErrorStatus(status, recoverable) == IF recoverable THEN status ELSE "failed"

\* cancel_task: `task and task.status == "running"`, t being tasks.get(task_id).
cancel_effective_unless_terminal(t) == t # None /\ t.status \in {"pending", "running"}
CancelEffective(t) == t # None /\ t.status = "running"

\* What a call does to tasks[task_id] before it sends its event: send_progress,
\* send_result, send_complete, send_error and set_running; send_stream touches
\* no task field.
UpdateTask(t, c) ==
    CASE c.op = "set_running" -> [t EXCEPT !.status = "running"]
      [] c.op = "send_progress" ->
            [t EXCEPT !.current_stage = c.stage,
                      !.stage_progress = c.progress,
                      !.overall_progress =
                          (100 * SumWeights(t.results) + StageWeight(c.stage) * c.progress)
                              \div 100]
      [] c.op = "send_result" -> [t EXCEPT !.results = @ \cup {c.stage}]
      [] c.op = "send_complete" ->
            [t EXCEPT !.status = "completed", !.overall_progress = 100,
                      !.outputs = Some("outputs")]
      [] c.op = "send_error" ->
            [t EXCEPT !.status = ErrorStatus(@, c.recoverable),
                      !.error = Some(c.message)]
      [] OTHER -> t

event_of_error_unrecoverable(t, c) ==
    CASE c.op = "set_running" -> None
      [] c.op = "send_progress" ->
            Some([event |-> "progress", stage |-> c.stage, progress |-> c.progress,
                  overall_progress |-> t.overall_progress])
      [] c.op = "send_stream" -> Some([event |-> "stream", stage |-> c.stage])
      [] c.op = "send_result" -> Some([event |-> "result", stage |-> c.stage])
      [] c.op = "send_complete" -> Some([event |-> "complete", status |-> "completed"])
      [] c.op = "send_error" ->
            Some([event |-> "error", stage |-> c.stage, message |-> c.message,
                  recoverable |-> FALSE])

\* The event a call hands to send_event once the task is updated (set_running
\* sends none).
EventOf(t, c) ==
    CASE c.op = "set_running" -> None
      [] c.op = "send_progress" ->
            Some([event |-> "progress", stage |-> c.stage, progress |-> c.progress,
                  overall_progress |-> t.overall_progress])
      [] c.op = "send_stream" -> Some([event |-> "stream", stage |-> c.stage])
      [] c.op = "send_result" -> Some([event |-> "result", stage |-> c.stage])
      [] c.op = "send_complete" -> Some([event |-> "complete", status |-> "completed"])
      [] c.op = "send_error" ->
            Some([event |-> "error", stage |-> c.stage, message |-> c.message,
                  recoverable |-> c.recoverable])

\* The executions run_pipeline can take.
PipelineRuns ==
    { run_pipeline(ch, o, n, im)
      : ch \in 0..MaxChunks, o \in {"none", "no_pages", "ok"}, n \in 1..MaxPages,
        im \in {"unavailable", "no_description", "generated", "nothing", "failed"} }

\* create_task has returned the task's id and run_pipeline_async has started the
\* pipeline thread on one of the executions run_pipeline can take; cancel_task
\* may be called from request threads.
TaskInit ==
    /\ task = NewTaskProgress
    /\ queue = << >>
    /\ calls \in PipelineRuns
    /\ sending = None
    /\ cancelling = "idle"
    /\ cancels = MaxCancels
    /\ ExtIdle
    /\ WorkflowIdle
    /\ RouterIdle

\* The pipeline thread enters its next TaskManager call: the part of the method
\* before self.send_event.
PipelineCall ==
    /\ calls # << >> /\ sending = None
    /\ Head(calls).op # "return"
    /\ task' = UpdateTask(task, Head(calls))
    /\ sending' = EventOf(task', Head(calls))
    /\ calls' = Tail(calls)
    /\ UNCHANGED <<queue, cancelling, cancels, extVars, wfVars, rtVars>>

\* send_event: queue.put of the call's event.
PipelineSendEvent ==
    /\ sending # None
    /\ queue' = Append(queue, sending[1])
    /\ sending' = None
    /\ UNCHANGED <<task, calls, cancelling, cancels, extVars, wfVars, rtVars>>

\* run_pipeline's except branch: a step between two calls (after set_running,
\* before the last call) raised, and the execution ends with
\* send_error(task_id, 'unknown', str(e), recoverable=False) and
\* return {'success': False, ...}.
PipelineRaises ==
    /\ sending = None
    /\ Len(calls) > 2
    /\ Head(calls).op # "set_running"
    /\ calls' = <<Error("unknown", FALSE), Return(FALSE)>>
    /\ UNCHANGED <<task, queue, sending, cancelling, cancels, extVars, wfVars, rtVars>>

\* cancel_task: the test `task and task.status == "running"`.
CancelTest ==
    /\ cancelling = "idle" /\ cancels > 0
    /\ cancels' = cancels - 1
    /\ cancelling' = IF CancelEffective(task) THEN "set_status" ELSE "idle"
    /\ UNCHANGED <<task, queue, calls, sending, extVars, wfVars, rtVars>>

\* cancel_task: task.status = "cancelled".
CancelSetStatus ==
    /\ cancelling = "set_status"
    /\ task' = [task EXCEPT !.status = "cancelled"]
    /\ cancelling' = "send_event"
    /\ UNCHANGED <<queue, calls, sending, cancels, extVars, wfVars, rtVars>>

\* cancel_task: self.send_event(task_id, 'cancelled', ...), return True.
CancelSendEvent ==
    /\ cancelling = "send_event"
    /\ queue' = Append(queue, [event |-> "cancelled"])
    /\ cancelling' = "idle"
    /\ UNCHANGED <<task, calls, sending, cancels, extVars, wfVars, rtVars>>

TaskNext ==
    \/ PipelineCall
    \/ PipelineSendEvent
    \/ PipelineRaises
    \/ CancelTest
    \/ CancelSetStatus
    \/ CancelSendEvent

TaskSpec == TaskInit /\ [][TaskNext]_vars

\* The moves of the task state machine: pending -> running -> {completed,
\* failed, cancelled}.
StatusMoves ==
    { <<"pending", "running">>, <<"running", "completed">>,
      <<"running", "failed">>, <<"running", "cancelled">> }

Terminal == {"completed", "failed", "cancelled"}

\* The event that belongs to a step into a terminal status: cancel_task's
\* cancelled, send_complete's complete, a non-recoverable send_error's error.
TerminalEvent(e) ==
    \/ e.event = "cancelled"
    \/ e.event = "complete"
    \/ e.event = "error" /\ ~e.recoverable

\* C11 as claimed: once the status is completed, failed or cancelled, the only
\* events still appended to the task's queue are the event of the step that made
\* the status terminal and cancel_task's cancelled event, also while the
\* pipeline thread runs on after a concurrent cancel_task.
NoEventAfterTerminal ==
    [][(task.status \in Terminal /\ Len(queue') > Len(queue))
          => TerminalEvent(queue'[Len(queue')])]_vars

\* C15 as claimed: the overall_progress stored on the task and carried by every
\* progress event is an integer in 0..100, for the calls run_pipeline issues.
OverallProgressInRange ==
    /\ task.overall_progress \in 0..100
    /\ \A i \in DOMAIN queue :
          queue[i].event = "progress" => queue[i].overall_progress \in 0..100

\* ------------------------------------- TaskManager methods, one call each

\* The id create_task returned for the task, and an id it never returned.
Known == "task_1"
TaskIds == {Known, "task_x"}

\* The stages of the stage_weights table and one that is not in it.
AllStages == Stages \cup {"cover"}

\* The TaskProgress values sequences of TaskManager calls bring a task to: any
\* status, any set of stages with a recorded result.
ManagerTasks ==
    { [NewTaskProgress EXCEPT !.status = s, !.results = r]
      : s \in {"pending", "running", "completed", "failed", "cancelled"},
        r \in SUBSET AllStages }

ManagerInit ==
    /\ task \in ManagerTasks
    /\ queue = << >>
    /\ calls = << >> /\ sending = None /\ cancelling = "idle" /\ cancels = 0
    /\ called = None /\ before = None
    /\ LsnIdle /\ MapIdle /\ SglIdle
    /\ WorkflowIdle
    /\ RouterIdle

calls_on_any_id(c, id) ==
    /\ called = None
    /\ before' = Some([task |-> task, queue |-> queue])
    /\ task' = UpdateTask(task, c)
    /\ queue' = LET e == EventOf(task', c)
                IN  IF e # None THEN Append(queue, e[1]) ELSE queue
    /\ called' = Some([call |-> c, id |-> id, ret |-> None])
    /\ UNCHANGED <<calls, sending, cancelling, cancels, lsnVars, mapVars, sglVars,
                   wfVars, rtVars>>

\* One of send_progress, send_stream, send_result, send_complete, send_error and
\* set_running, from entry to return, on task id `id`: tasks.get(id) is updated
\* if present, and send_event puts the event if queues.get(id) is present.
Calls(c, id) ==
    /\ called = None
    /\ before' = Some([task |-> task, queue |-> queue])
    /\ task' = IF id = Known THEN UpdateTask(task, c) ELSE task
    /\ queue' = LET e == EventOf(task', c)
                IN  IF id = Known /\ e # None THEN Append(queue, e[1]) ELSE queue
    /\ called' = Some([call |-> c, id |-> id, ret |-> None])
    /\ UNCHANGED <<calls, sending, cancelling, cancels, lsnVars, mapVars, sglVars,
                   wfVars, rtVars>>

SendProgress ==
    \E id \in TaskIds, stage \in AllStages, percent \in 0..MaxPercent :
        Calls(Progress(stage, percent), id)
SendStream == \E id \in TaskIds : Calls(Call("send_stream", "outline", 0, FALSE), id)
SendResult == \E id \in TaskIds, stage \in AllStages : Calls(Result(stage), id)
SendComplete == \E id \in TaskIds : Calls(Call("send_complete", "", 0, FALSE), id)
SendError ==
    \E id \in TaskIds, stage \in AllStages \cup {"unknown"},
       message \in {"x", "str(e)"}, recoverable \in BOOLEAN :
        Calls(ErrorWith(stage, message, recoverable), id)
SetRunning == \E id \in TaskIds : Calls(Call("set_running", "", 0, FALSE), id)

\* cancel_task(id), from entry to return.
CancelTask ==
    \E id \in TaskIds :
        LET t == IF id = Known THEN task ELSE None
            effective == CancelEffective(t)
        IN  /\ called = None
            /\ before' = Some([task |-> task, queue |-> queue])
            /\ task' = IF effective THEN [task EXCEPT !.status = "cancelled"] ELSE task
            /\ queue' = IF effective THEN Append(queue, [event |-> "cancelled"])
                        ELSE queue
            /\ called' = Some([call |-> Call("cancel_task", "", 0, FALSE), id |-> id,
                               ret |-> Some(effective)])
            /\ UNCHANGED <<calls, sending, cancelling, cancels, lsnVars, mapVars, sglVars,
                   wfVars, rtVars>>

ManagerNext ==
    \/ SendProgress
    \/ SendStream
    \/ SendResult
    \/ SendComplete
    \/ SendError
    \/ SetRunning
    \/ CancelTask

ManagerSpec == ManagerInit /\ [][ManagerNext]_vars

\* The method `op` has been called and has returned.
Returned(op) == called # None /\ called[1].call.op = op

\* C12: cancel_task takes effect only on a running task: then the status is
\* cancelled, exactly one cancelled event is appended and True is returned; on a
\* task in any other status and on an unknown id it returns False and leaves
\* the task and its queue as they were.
CancelTaskContract ==
    Returned("cancel_task") =>
        LET c == called[1]
            b == before[1]
        IN  IF c.id = Known /\ b.task.status = "running"
            THEN /\ c.ret = Some(TRUE)
                 /\ task = [b.task EXCEPT !.status = "cancelled"]
                 /\ queue = Append(b.queue, [event |-> "cancelled"])
            ELSE /\ c.ret = Some(FALSE)
                 /\ task = b.task
                 /\ queue = b.queue

\* C12 witness: cancel_task on a running task returned True with the cancelled
\* event queued.
CancelledRunningTask ==
    /\ Returned("cancel_task")
    /\ called[1].ret = Some(TRUE)
    /\ before[1].task.status = "running"
    /\ task.status = "cancelled"
    /\ queue = <<[event |-> "cancelled"]>>

\* C13: send_error with recoverable=True leaves the status (of a running task:
\* running), with recoverable=False sets it to failed; either way exactly one
\* error event with the stage, the message and the flag is appended and the
\* message is stored as the task's error.
SendErrorContract ==
    (Returned("send_error") /\ called[1].id = Known) =>
        LET c == called[1].call
            b == before[1]
        IN  /\ c.recoverable => task.status = b.task.status
            /\ ~c.recoverable => task.status = "failed"
            /\ queue = Append(b.queue,
                              [event |-> "error", stage |-> c.stage,
                               message |-> c.message, recoverable |-> c.recoverable])
            /\ task.error = Some(c.message)

\* C13 witness: send_error(task, "image", "x", recoverable=True) on a running
\* task has returned and the task is still running.
RecoverableErrorOnRunning ==
    /\ Returned("send_error") /\ called[1].id = Known
    /\ called[1].call = ErrorWith("image", "x", TRUE)
    /\ before[1].task.status = "running"
    /\ task.status = "running"

\* The weights as the specification states them.
ClaimedWeight(stage) ==
    CASE stage = "analyze"  -> 10
      [] stage = "metaphor" -> 15
      [] stage = "outline"  -> 20
      [] stage = "content"  -> 30
      [] stage = "image"    -> 25
      [] OTHER              -> 0

\* Integer part of: the weights of the completed stages + weight(stage) * percent / 100.
ClaimedOverall(completed, stage, percent) ==
    LET w(s) == IF s \in completed THEN ClaimedWeight(s) ELSE 0
        sum == w("analyze") + w("metaphor") + w("outline") + w("content") + w("image")
    IN  (100 * sum + ClaimedWeight(stage) * percent) \div 100

\* C14: after send_progress(stage, percent, message) the task's overall_progress
\* and the one in the emitted progress event equal the integer part of the
\* weights of the stages with a recorded result plus weight(stage) * percent / 100.
OverallProgressFormula ==
    (Returned("send_progress") /\ called[1].id = Known) =>
        LET c == called[1].call
            claimed == ClaimedOverall(before[1].task.results, c.stage, c.progress)
        IN  /\ task.overall_progress = claimed
            /\ queue = Append(before[1].queue,
                              [event |-> "progress", stage |-> c.stage,
                               progress |-> c.progress, overall_progress |-> claimed])

\* C14 witness: send_progress("outline", 50) after send_result("analyze") has
\* given overall_progress 20.
OutlineHalfAfterAnalyze ==
    /\ Returned("send_progress") /\ called[1].id = Known
    /\ called[1].call = Progress("outline", 50)
    /\ before[1].task.results = {"analyze"}
    /\ task.overall_progress = 20

\* ------------------------------------------- a listener on the task's queue

\* One task as in TaskSpec, with a listener in its poll loop on the task's queue.
ListenerInit ==
    /\ task = NewTaskProgress
    /\ queue = << >>
    /\ calls \in PipelineRuns
    /\ sending = None
    /\ cancelling = "idle"
    /\ cancels = MaxCancels
    /\ received = << >>
    /\ listener = "polling"
    /\ ApiIdle /\ MapIdle /\ SglIdle
    /\ WorkflowIdle
    /\ RouterIdle

\* queue.get(timeout=...) returns the oldest event.
ListenerGet ==
    /\ listener = "polling" /\ queue # << >>
    /\ received' = Append(received, Head(queue))
    /\ queue' = Tail(queue)
    /\ UNCHANGED <<listener, task, calls, sending, cancelling, cancels, apiVars,
                   mapVars, sglVars, wfVars, rtVars>>

\* queue.get(timeout=...) finds the queue empty for the poll interval.
ListenerTimeout ==
    /\ listener = "polling" /\ queue = << >>
    /\ listener' = "timed_out"
    /\ UNCHANGED <<received, task, queue, calls, sending, cancelling, cancels, apiVars,
                   mapVars, sglVars, wfVars, rtVars>>

\* After a timed-out poll the listener re-checks the task: it stops when the
\* status is terminal and polls again otherwise.
ListenerRecheck ==
    /\ listener = "timed_out"
    /\ listener' = IF task.status \in Terminal THEN "stopped" ELSE "polling"
    /\ UNCHANGED <<received, task, queue, calls, sending, cancelling, cancels, apiVars,
                   mapVars, sglVars, wfVars, rtVars>>

ListenerNext ==
    \/ PipelineCall
    \/ PipelineSendEvent
    \/ PipelineRaises
    \/ CancelTest
    \/ CancelSetStatus
    \/ CancelSendEvent
    \/ ListenerGet
    \/ ListenerTimeout
    \/ ListenerRecheck

ListenerSpec == ListenerInit /\ [][ListenerNext]_vars

\* C17 as claimed: when the listener stops (a poll timed out and the status was
\* then terminal) it has received every event appended for the task, the
\* terminal complete / error / cancelled event included.
ListenerStopsWithEveryEvent ==
    [][(listener # "stopped" /\ listener' = "stopped")
          => /\ queue' = << >>
             /\ \E i \in DOMAIN received : TerminalEvent(received[i])]_vars

\* ------------------------------- the TaskManager's maps under several threads

\* The ids create_task returns here; each names the thread that creates the
\* task and then runs its pipeline. Two more threads: one in cancel_task(Known),
\* one in cleanup_task(Known)'s _cleanup.
Created == {Known, "task_2"}
MapThreads == Created \cup {"cancel", "cleanup"}

\* send_event: self.queues.get(task_id).
queue_ref_first(qs, id) == qs[Known]
QueueRef(qs, id) == qs[id]

notMapVars == <<task, queue, calls, sending, cancelling, cancels, apiVars, lsnVars,
                sglVars, wfVars, rtVars>>

\* The k-th event task id's pipeline sends, and cancel_task's event.
PipelineEvent(id, k) == [task_id |-> id, n |-> k]
CancelledEvent(id) == [task_id |-> id, n |-> 0]

MapsInit ==
    /\ tasks = [id \in Created |-> None]
    /\ queues = [id \in Created |-> None]
    /\ qobj = [id \in Created |-> << >>]
    /\ task_lock = None
    /\ thr = [t \in MapThreads |->
                [pc |-> CASE t \in Created -> "create_task"
                          [] t = "cancel"  -> "cancel_task"
                          [] OTHER         -> "cleanup_task",
                 id |-> IF t \in Created THEN t ELSE Known,
                 n |-> 0, ref |-> None]]
    /\ hist = [put |-> [id \in Created |-> << >>], got |-> [id \in Created |-> << >>],
               unlocked |-> {}]
    /\ task = None /\ queue = << >> /\ calls = << >> /\ sending = None
    /\ cancelling = "idle" /\ cancels = 0
    /\ ApiIdle /\ LsnIdle /\ SglIdle
    /\ WorkflowIdle
    /\ RouterIdle

\* hist after thread t has accessed a map in operation op.
Accessed(t, op) ==
    IF task_lock = Some(t) THEN hist ELSE [hist EXCEPT !.unlocked = @ \cup {op}]

\* create_task: `with self.task_lock:` entered.
CreateTaskLock(t) ==
    /\ thr[t].pc = "create_task" /\ task_lock = None
    /\ task_lock' = Some(t)
    /\ thr' = [thr EXCEPT ![t].pc = "create_write"]
    /\ UNCHANGED <<tasks, queues, qobj, hist, notMapVars>>

\* create_task: both maps written, lock released, id returned; the pipeline
\* thread is started with the id.
CreateTaskWrite(t) ==
    /\ thr[t].pc = "create_write"
    /\ tasks' = [tasks EXCEPT ![thr[t].id] = [status |-> "pending"]]
    /\ queues' = [queues EXCEPT ![thr[t].id] = Some(thr[t].id)]
    /\ hist' = Accessed(t, "create_task")
    /\ task_lock' = None
    /\ thr' = [thr EXCEPT ![t].pc = "set_running"]
    /\ UNCHANGED <<qobj, notMapVars>>

\* set_running: tasks.get(task_id) and the status assignment.
ThreadSetRunning(t) ==
    /\ thr[t].pc = "set_running"
    /\ tasks' = IF tasks[thr[t].id] # None
                THEN [tasks EXCEPT ![thr[t].id].status = "running"] ELSE tasks
    /\ hist' = Accessed(t, "set_running")
    /\ thr' = [thr EXCEPT ![t].pc = "send_event"]
    /\ UNCHANGED <<queues, qobj, task_lock, notMapVars>>

\* send_event: queue = self.queues.get(task_id).
SendEventGet(t) ==
    /\ thr[t].pc = "send_event"
    /\ thr' = [thr EXCEPT ![t].pc = "put", ![t].ref = QueueRef(queues, thr[t].id)]
    /\ hist' = Accessed(t, "send_event")
    /\ UNCHANGED <<tasks, queues, qobj, task_lock, notMapVars>>

\* send_event: `if queue: queue.put(...)`, else the event is dropped; the
\* pipeline goes on to its next event, cancel_task returns.
SendEventPut(t) ==
    LET id == thr[t].id
        e == IF t = "cancel" THEN CancelledEvent(id) ELSE PipelineEvent(id, thr[t].n + 1)
        ref == thr[t].ref
    IN  /\ thr[t].pc = "put"
        /\ qobj' = IF ref # None THEN [qobj EXCEPT ![ref[1]] = Append(@, e)] ELSE qobj
        /\ hist' = IF ref # None THEN [hist EXCEPT !.put[id] = Append(@, e)] ELSE hist
        /\ thr' = [thr EXCEPT ![t].n = @ + 1, ![t].ref = None,
                              ![t].pc = IF t # "cancel" /\ thr[t].n + 1 < MaxEvents
                                        THEN "send_event" ELSE "done"]
        /\ UNCHANGED <<tasks, queues, task_lock, notMapVars>>

\* cancel_task: tasks.get(task_id) and the test of the status.
CancellerTest ==
    /\ thr["cancel"].pc = "cancel_task"
    /\ thr' = [thr EXCEPT !["cancel"].pc =
                  IF CancelEffective(tasks[thr["cancel"].id]) THEN "cancel_set" ELSE "done"]
    /\ hist' = Accessed("cancel", "cancel_task")
    /\ UNCHANGED <<tasks, queues, qobj, task_lock, notMapVars>>

\* cancel_task: task.status = "cancelled" on the object it fetched.
CancellerSet ==
    /\ thr["cancel"].pc = "cancel_set"
    /\ tasks' = IF tasks[thr["cancel"].id] # None
                THEN [tasks EXCEPT ![thr["cancel"].id].status = "cancelled"] ELSE tasks
    /\ thr' = [thr EXCEPT !["cancel"].pc = "send_event"]
    /\ UNCHANGED <<queues, qobj, task_lock, hist, notMapVars>>

\* _cleanup after its sleep: `with self.task_lock:` entered.
CleanupLock ==
    /\ thr["cleanup"].pc = "cleanup_task" /\ task_lock = None
    /\ tasks[thr["cleanup"].id] # None
    /\ task_lock' = Some("cleanup")
    /\ thr' = [thr EXCEPT !["cleanup"].pc = "pop_tasks"]
    /\ UNCHANGED <<tasks, queues, qobj, hist, notMapVars>>

\* _cleanup: self.tasks.pop(task_id, None).
CleanupPopTasks ==
    /\ thr["cleanup"].pc = "pop_tasks"
    /\ tasks' = [tasks EXCEPT ![thr["cleanup"].id] = None]
    /\ hist' = Accessed("cleanup", "cleanup_task")
    /\ thr' = [thr EXCEPT !["cleanup"].pc = "pop_queues"]
    /\ UNCHANGED <<queues, qobj, task_lock, notMapVars>>

queues_pop_nothing(qs, id) == qs
\* self.queues.pop(task_id, None).
QueuesPop(qs, id) == [qs EXCEPT ![id] = None]

\* _cleanup: self.queues.pop(task_id, None), lock released.
CleanupPopQueues ==
    /\ thr["cleanup"].pc = "pop_queues"
    /\ queues' = QueuesPop(queues, thr["cleanup"].id)
    /\ hist' = Accessed("cleanup", "cleanup_task")
    /\ task_lock' = None
    /\ thr' = [thr EXCEPT !["cleanup"].pc = "done"]
    /\ UNCHANGED <<tasks, qobj, notMapVars>>

\* A consumer holding the task's Queue takes its oldest event (Queue.get).
QueueGet(id) ==
    /\ qobj[id] # << >>
    /\ hist' = [hist EXCEPT !.got[id] = Append(@, Head(qobj[id]))]
    /\ qobj' = [qobj EXCEPT ![id] = Tail(@)]
    /\ UNCHANGED <<tasks, queues, task_lock, thr, notMapVars>>

MapsNext ==
    \/ \E t \in Created : CreateTaskLock(t)
    \/ \E t \in Created : CreateTaskWrite(t)
    \/ \E t \in Created : ThreadSetRunning(t)
    \/ \E t \in MapThreads : SendEventGet(t)
    \/ \E t \in MapThreads : SendEventPut(t)
    \/ CancellerTest
    \/ CancellerSet
    \/ CleanupLock
    \/ CleanupPopTasks
    \/ CleanupPopQueues
    \/ \E id \in Created : QueueGet(id)

MapsSpec == MapsInit /\ [][MapsNext]_vars

\* C16: the events a consumer has taken from a task's queue, followed by those
\* still in it, are exactly the events the send_event calls for that task put,
\* in the order of the puts (the pipeline's own events in program order), also
\* with a cancelling thread putting concurrently; no event of another task is
\* among them.
FifoPerTask ==
    \A id \in Created :
        LET all == hist.got[id] \o qobj[id]
            own == SelectSeq(all, LAMBDA e : e.n > 0)
        IN  /\ all = hist.put[id]
            /\ \A i \in DOMAIN all : all[i].task_id = id
            /\ own = [k \in 1..Len(own) |-> PipelineEvent(id, k)]
            /\ Len(SelectSeq(all, LAMBDA e : e.n = 0)) <= 1

\* C16 witness: both tasks' queues are drained; the consumer of task_1 got the
\* cancelled event between the pipeline's events, the consumer of task_2 got
\* all of its pipeline's events.
InterleavedQueuesDrained ==
    /\ qobj = [id \in Created |-> << >>]
    /\ Len(hist.got[Known]) = MaxEvents + 1
    /\ hist.got[Known][1] = PipelineEvent(Known, 1)
    /\ hist.got[Known][2] = CancelledEvent(Known)
    /\ Len(hist.got["task_2"]) = MaxEvents

\* C18 as claimed: every operation that reads or modifies the tasks map or the
\* queues map holds task_lock while it does.
MapsAccessedUnderLock == hist.unlocked = {}

\* ----------------------------- first accesses to the TaskManager singleton

\* The threads that access the TaskManager for the first time.
SThreads == 1..MaxThreads

notSglVars == <<task, queue, calls, sending, cancelling, cancels, apiVars, lsnVars,
                mapVars, wfVars, rtVars>>

\* Module import: no instance, no global, the class lock free; no thread has
\* started its access.
SingletonInit ==
    /\ cls = [_instance |-> None, _lock |-> None, _task_manager |-> None]
    /\ objs = << >>
    /\ sthr = [t \in SThreads |-> [pc |-> "start", via |-> "", self |-> None]]
    /\ task = None /\ queue = << >> /\ calls = << >> /\ sending = None
    /\ cancelling = "idle" /\ cancels = 0
    /\ ApiIdle /\ LsnIdle /\ MapIdle
    /\ WorkflowIdle
    /\ RouterIdle

At(t, pc) == sthr[t].pc = pc
Goto(t, pc) == sthr' = [sthr EXCEPT ![t].pc = pc]

\* The thread calls get_task_manager() or TaskManager().
Access(t) ==
    /\ At(t, "start")
    /\ \E via \in {"get_task_manager", "TaskManager"} :
          sthr' = [sthr EXCEPT ![t].via = via,
                               ![t].pc = IF via = "TaskManager" THEN "new_check"
                                         ELSE "gtm_check"]
    /\ UNCHANGED <<cls, objs, notSglVars>>

\* get_task_manager: `if _task_manager is None`, else return it.
GtmCheck(t) ==
    /\ At(t, "gtm_check")
    /\ sthr' = IF cls._task_manager = None THEN [sthr EXCEPT ![t].pc = "new_check"]
               ELSE [sthr EXCEPT ![t].pc = "use", ![t].self = cls._task_manager]
    /\ UNCHANGED <<cls, objs, notSglVars>>

\* __new__: the outer `if cls._instance is None`, else return cls._instance.
NewCheck(t) ==
    /\ At(t, "new_check")
    /\ sthr' = IF cls._instance = None THEN [sthr EXCEPT ![t].pc = "new_lock"]
               ELSE [sthr EXCEPT ![t].pc = "init_check", ![t].self = cls._instance]
    /\ UNCHANGED <<cls, objs, notSglVars>>

\* __new__: `with cls._lock:` entered.
NewLock(t) ==
    /\ At(t, "new_lock") /\ cls._lock = None
    /\ cls' = [cls EXCEPT !._lock = Some(t)]
    /\ Goto(t, "new_check2")
    /\ UNCHANGED <<objs, notSglVars>>

\* __new__: the inner check; cls._instance = super().__new__(cls) if it is
\* still None, else the lock is released and cls._instance returned.
NewCheck2(t) ==
    /\ At(t, "new_check2")
    /\ IF cls._instance = None
       THEN /\ objs' = Append(objs, [_initialized |-> None, tasks |-> None, inits |-> 0])
            /\ cls' = [cls EXCEPT !._instance = Some(Len(objs) + 1)]
            /\ Goto(t, "new_flag")
       ELSE /\ cls' = [cls EXCEPT !._lock = None]
            /\ sthr' = [sthr EXCEPT ![t].pc = "init_check", ![t].self = cls._instance]
            /\ UNCHANGED objs
    /\ UNCHANGED notSglVars

\* __new__: cls._instance._initialized = False, lock released, instance returned.
NewFlag(t) ==
    /\ At(t, "new_flag")
    /\ objs' = [objs EXCEPT ![cls._instance[1]]._initialized = Some(FALSE)]
    /\ cls' = [cls EXCEPT !._lock = None]
    /\ sthr' = [sthr EXCEPT ![t].pc = "init_check", ![t].self = cls._instance]
    /\ UNCHANGED notSglVars

\* __init__: `if self._initialized: return`; AttributeError while the attribute
\* is not set yet.
InitCheck(t) ==
    LET flag == objs[sthr[t].self[1]]._initialized
    IN  /\ At(t, "init_check")
        /\ Goto(t, CASE flag = None -> "raised"
                     [] flag = Some(FALSE) -> "init_mark"
                     [] OTHER -> "constructed")
        /\ UNCHANGED <<cls, objs, notSglVars>>

\* __init__: self._initialized = True.
InitMark(t) ==
    /\ At(t, "init_mark")
    /\ objs' = [objs EXCEPT ![sthr[t].self[1]]._initialized = Some(TRUE)]
    /\ Goto(t, "init_maps")
    /\ UNCHANGED <<cls, notSglVars>>

\* __init__: self.tasks = {}, self.queues = {}, self.task_lock = Lock().
InitMaps(t) ==
    /\ At(t, "init_maps")
    /\ objs' = [objs EXCEPT ![sthr[t].self[1]].tasks = Some({}),
                            ![sthr[t].self[1]].inits = @ + 1]
    /\ Goto(t, "constructed")
    /\ UNCHANGED <<cls, notSglVars>>

\* TaskManager() has returned; get_task_manager stores it in _task_manager.
Constructed(t) ==
    /\ At(t, "constructed")
    /\ cls' = IF sthr[t].via = "get_task_manager"
              THEN [cls EXCEPT !._task_manager = sthr[t].self] ELSE cls
    /\ Goto(t, "use")
    /\ UNCHANGED <<objs, notSglVars>>

\* The thread creates a task through its reference (create_task);
\* AttributeError while the instance has no task_lock / tasks yet.
UseCreateTask(t) ==
    LET k == sthr[t].self[1]
    IN  /\ At(t, "use")
        /\ IF objs[k].tasks = None
           THEN Goto(t, "raised") /\ UNCHANGED objs
           ELSE /\ objs' = [objs EXCEPT ![k].tasks = Some(@[1] \cup {t})]
                /\ Goto(t, "created")
        /\ UNCHANGED <<cls, notSglVars>>

SingletonNext ==
    \/ \E t \in SThreads : Access(t)
    \/ \E t \in SThreads : GtmCheck(t)
    \/ \E t \in SThreads : NewCheck(t)
    \/ \E t \in SThreads : NewLock(t)
    \/ \E t \in SThreads : NewCheck2(t)
    \/ \E t \in SThreads : NewFlag(t)
    \/ \E t \in SThreads : InitCheck(t)
    \/ \E t \in SThreads : InitMark(t)
    \/ \E t \in SThreads : InitMaps(t)
    \/ \E t \in SThreads : Constructed(t)
    \/ \E t \in SThreads : UseCreateTask(t)

SingletonSpec == SingletonInit /\ [][SingletonNext]_vars

\* C19 as claimed: all threads obtain the same instance, its maps are
\* initialised exactly once, and a task created through one reference is never
\* lost to another thread's first access.
SingletonInitialisedOnce ==
    /\ \A t, u \in SThreads :
          (sthr[t].self # None /\ sthr[u].self # None) => sthr[t].self = sthr[u].self
    /\ \A k \in DOMAIN objs : objs[k].inits <= 1
    /\ \A t \in SThreads :
          At(t, "created") => /\ objs[sthr[t].self[1]].tasks # None
                              /\ t \in objs[sthr[t].self[1]].tasks[1]


\* --------------------------------- references between sections and resources

\* Largest number of sections the outline of a run of Coder and Artist holds.
MaxRefSections == 2

\* The section contents told apart by the placeholders Coder and Artist look for.
RefContents ==
    { "written", "[CODE: code_1 - d]", "[IMAGE: flowchart - d]",
      "[CODE: code_1 - d] [IMAGE: flowchart - d]" }

\* CoderAgent.extract_code_placeholders: the ids of the [CODE: id - description]
\* placeholders of a content, in order.
extract_code_placeholders(content) ==
    IF content \in {"[CODE: code_1 - d]", "[CODE: code_1 - d] [IMAGE: flowchart - d]"}
    THEN <<"code_1">> ELSE << >>

\* ArtistAgent.extract_image_placeholders: the types of the [IMAGE: type -
\* description] placeholders of a content, in order.
extract_image_placeholders(content) ==
    IF content \in {"[IMAGE: flowchart - d]", "[CODE: code_1 - d] [IMAGE: flowchart - d]"}
    THEN <<"flowchart">> ELSE << >>

\* CoderAgent.run, the loop over the placeholders of the i-th section:
\* generate_code returns (a block with the placeholder's id is appended and the
\* id added to the section's code_ids) or raises (logged, nothing appended).
\* `attempts` is the history of the generate_code calls made so far.
RECURSIVE CodeSection(_, _, _, _, _)
CodeSection(section, i, placeholders, code_blocks, attempts) ==
    IF placeholders = << >>
    THEN { [section |-> section, code_blocks |-> code_blocks, attempts |-> attempts] }
    ELSE LET id == Head(placeholders)
             attempt(o) == [section |-> i, id |-> id, outcome |-> o]
         IN  CodeSection([section EXCEPT !.code_ids = Append(@, id)], i,
                         Tail(placeholders), Append(code_blocks, [id |-> id]),
                         Append(attempts, attempt("returned")))
             \cup CodeSection(section, i, Tail(placeholders), code_blocks,
                              Append(attempts, attempt("raised")))

\* CoderAgent.run, the loop over the sections from the i-th on.
RECURSIVE CodeSections(_, _, _, _)
CodeSections(sections, i, code_blocks, attempts) ==
    IF i > Len(sections)
    THEN { [sections |-> sections, code_blocks |-> code_blocks, attempts |-> attempts] }
    ELSE UNION { CodeSections([sections EXCEPT ![i] = r.section], i + 1,
                              r.code_blocks, r.attempts)
                 : r \in CodeSection(sections[i], i,
                                     extract_code_placeholders(sections[i].content),
                                     code_blocks, attempts) }

\* CoderAgent.run as one call: the state it returns and the generate_code calls
\* it made.
coder_run_call(st) ==
    { [kind |-> "return",
       state |-> [st EXCEPT !.sections = r.sections, !.code_blocks = r.code_blocks],
       attempts |-> r.attempts]
      : r \in CodeSections(st.sections, 1, << >>, << >>) }

\* CoderAgent.run with the sections' code_ids tracked.
CoderAgentRun(st) == { o.state : o \in coder_run_call(st) }

\* How the generation of one image can end: generate_image raises (caught in
\* run: no image), or returns a mermaid image, or returns an ai_image that
\* _render_ai_image renders, or one whose rendering fails (_render_ai_image
\* catches the failure and returns None: the image is kept without a path).
ImageOutcomes == {"raised", "mermaid", "rendered", "render failed"}

\* The image_resource appended for an image generated as `outcome`.
ImageResource(image_id, outcome) ==
    [id |-> image_id,
     render_method |-> IF outcome = "mermaid" THEN "mermaid" ELSE "ai_image",
     rendered_path |-> IF outcome = "rendered" THEN Some("./images/file.png") ELSE None]

\* ArtistAgent.run, the loop over the outline's sections from the i-th on:
\* for a section that asks for an image, generate_image raises (logged) or the
\* image img_<counter> is appended, and its id added to sections[i] when there
\* is an i-th section.
RECURSIVE OutlineImages(_, _, _, _, _, _)
OutlineImages(sections, sections_outline, i, images, image_id_counter, attempts) ==
    IF i > Len(sections_outline)
    THEN { [sections |-> sections, images |-> images, counter |-> image_id_counter,
            attempts |-> attempts] }
    ELSE IF sections_outline[i].image_type = "none"
    THEN OutlineImages(sections, sections_outline, i + 1, images, image_id_counter,
                       attempts)
    ELSE UNION {
           LET attempt == [source |-> "outline", section |-> i,
                           id |-> image_id_counter, outcome |-> o]
           IN  IF o = "raised"
               THEN OutlineImages(sections, sections_outline, i + 1, images,
                                  image_id_counter, Append(attempts, attempt))
               ELSE OutlineImages(
                        IF i <= Len(sections)
                        THEN [sections EXCEPT ![i].image_ids = Append(@, image_id_counter)]
                        ELSE sections,
                        sections_outline, i + 1,
                        Append(images, ImageResource(image_id_counter, o)),
                        image_id_counter + 1, Append(attempts, attempt))
           : o \in ImageOutcomes }

\* ArtistAgent.run, the loop over the image placeholders of the i-th section.
RECURSIVE ImageSection(_, _, _, _, _, _)
ImageSection(section, i, placeholders, images, image_id_counter, attempts) ==
    IF placeholders = << >>
    THEN { [section |-> section, images |-> images, counter |-> image_id_counter,
            attempts |-> attempts] }
    ELSE UNION {
           LET attempt == [source |-> "placeholder", section |-> i,
                           id |-> image_id_counter, outcome |-> o]
           IN  IF o = "raised"
               THEN ImageSection(section, i, Tail(placeholders), images,
                                 image_id_counter, Append(attempts, attempt))
               ELSE ImageSection([section EXCEPT !.image_ids = Append(@, image_id_counter)],
                                 i, Tail(placeholders),
                                 Append(images, ImageResource(image_id_counter, o)),
                                 image_id_counter + 1, Append(attempts, attempt))
           : o \in ImageOutcomes }

\* ArtistAgent.run, the loop over the sections' contents from the i-th on.
RECURSIVE PlaceholderImages(_, _, _, _, _)
PlaceholderImages(sections, i, images, image_id_counter, attempts) ==
    IF i > Len(sections)
    THEN { [sections |-> sections, images |-> images, attempts |-> attempts] }
    ELSE UNION { PlaceholderImages([sections EXCEPT ![i] = r.section], i + 1,
                                   r.images, r.counter, r.attempts)
                 : r \in ImageSection(sections[i], i,
                                      extract_image_placeholders(sections[i].content),
                                      images, image_id_counter, attempts) }

\* ArtistAgent.run as one call: without an outline None.get raises; otherwise
\* the state it returns and the image generations it attempted.
artist_run_call(st) ==
    IF st.outline = None
    THEN { [kind |-> "raise", state |-> st, attempts |-> << >>] }
    ELSE UNION { { [kind |-> "return",
                    state |-> [st EXCEPT !.sections = r.sections, !.images = r.images],
                    attempts |-> r.attempts]
                   : r \in PlaceholderImages(o.sections, 1, o.images, o.counter,
                                             o.attempts) }
                 : o \in OutlineImages(st.sections, st.outline[1], 1, << >>, 1, << >>) }

\* ArtistAgent.run on a state that has an outline, the sections' image_ids tracked.
ArtistAgentRun(st) == { o.state : o \in artist_run_call(st) }

\* write_section's result for the i-th section of the outline.
WrittenSection(i, content) ==
    [id |-> i, title |-> "title", content |-> content,
     image_ids |-> << >>, code_ids |-> << >>]

\* The states Coder is run on: the outline's sections ask for an image or not;
\* Writer wrote all of them, or stopped at one that failed and set error (C7);
\* without an outline it wrote none.
RefStatesOf(n, k) ==
    { [create_initial_state EXCEPT
          !.background_knowledge = Some("summary"),
          !.outline = Some([i \in 1..n |-> [image_type |-> t[i]]]),
          !.sections = [i \in 1..k |-> WrittenSection(i, c[i])],
          !.error = IF k < n THEN Some("section failed") ELSE None]
      : t \in [1..n -> {"none", "flowchart"}], c \in [1..k -> RefContents] }
RefStates ==
    UNION { UNION { RefStatesOf(n, k) : k \in 0..n } : n \in 0..MaxRefSections }
    \cup { [create_initial_state EXCEPT !.error = Some("no outline")] }

\* ------------------------------------------- functions called on drawn inputs

\* Largest number of times enhance_section is applied to its own result.
MaxApplications == 3
\* Largest number of vague points enhance_section is asked about.
MaxVaguePoints == 2
\* Largest number of search queries generate_search_queries returns.
MaxQueries == 2
\* Largest number of results the search service returns for the queries of
\* one search, taken together.
MaxHits == 3
\* Largest max_results search is called with.
MaxKept == 2
\* Largest number of sections, and of question results, Deepen is called on.
MaxDeepen == 2

Contents == {"", "written", "enhanced"}
\* item.get('url', ''): "" stands for an entry without a URL.
Urls == {"", "a", "b"}

\* self.search_service.search(query, ...) for the q-th query, n results long:
\* it returns n results (any URLs; the title tells the entries apart) or, with
\* no result, raises or reports no success.
Responses(q, n) ==
    { [kind |-> "return", success |-> TRUE,
       results |-> [i \in 1..n |-> [url |-> u[i], title |-> <<q, i>>]]]
      : u \in [1..n -> Urls] }
    \cup (IF n > 0 THEN {}
          ELSE { [kind |-> "raise",  success |-> FALSE, results |-> << >>],
                 [kind |-> "return", success |-> FALSE, results |-> << >>] })

\* The answers to k queries that hold at most `hits` results together.
RECURSIVE ResponseSeqs(_, _)
ResponseSeqs(k, hits) ==
    IF k = 0 THEN {<< >>}
    ELSE UNION { { Append(s, r) : s \in ResponseSeqs(k - 1, hits - n),
                                  r \in Responses(k, n) }
                 : n \in 0..hits }

\* ResearcherAgent.search, the loop over the queries: the results of every query
\* that succeeded with results, concatenated in query order.
RECURSIVE all_results(_)
all_results(responses) ==
    IF responses = << >> THEN << >>
    ELSE LET r == Head(responses)
         IN  (IF r.kind = "return" /\ r.success /\ r.results # << >>
              THEN r.results ELSE << >>) \o all_results(Tail(responses))

keep_duplicates(items, seen_urls, unique) == SelectSeq(items, LAMBDA x : x.url # "")

\* ResearcherAgent.search, the loop over all_results: an item is appended to
\* unique_results when it has a URL that is not in seen_urls.
RECURSIVE unique_results(_, _, _)
unique_results(items, seen_urls, unique) ==
    IF items = << >> THEN unique
    ELSE LET item == Head(items)
             url == item.url
         IN  IF url # "" /\ url \notin seen_urls
             THEN unique_results(Tail(items), seen_urls \cup {url}, Append(unique, item))
             ELSE unique_results(Tail(items), seen_urls, unique)

\* ResearcherAgent.search: nothing without a search service, otherwise
\* unique_results[:max_results].
search(search_service, responses, max_results) ==
    IF ~search_service THEN << >>
    ELSE LET unique == unique_results(all_results(responses), {}, << >>)
         IN  SubSeq(unique, 1, Min(max_results, Len(unique)))

\* An argument with a default: None when the caller leaves it out.
Given(arg, default) == IF arg = None THEN default ELSE arg[1]

create_initial_state_fixed_length(topic, article_type, target_audience, target_length, source_material) ==
    [ topic                 |-> topic,
      article_type          |-> article_type,
      target_audience       |-> target_audience,
      target_length         |-> "medium",
      source_material       |-> source_material,
      search_results        |-> << >>,
      background_knowledge  |-> None,
      key_concepts          |-> << >>,
      reference_links       |-> << >>,
      outline               |-> None,
      sections              |-> << >>,
      code_blocks           |-> << >>,
      images                |-> << >>,
      question_results      |-> << >>,
      all_sections_detailed |-> FALSE,
      questioning_count     |-> 0,
      review_score          |-> 0,
      review_issues         |-> << >>,
      review_approved       |-> FALSE,
      revision_count        |-> 0,
      final_markdown        |-> None,
      final_html            |-> None,
      output_folder         |-> None,
      error                 |-> None ]

\* create_initial_state with its parameters (schemas/state.py); the state of a
\* workflow run, create_initial_state above, keeps the fields the graph's nodes
\* are modelled on.
create_initial_state_with(topic, article_type, target_audience, target_length, source_material) ==
    [ topic                 |-> topic,
      article_type          |-> article_type,
      target_audience       |-> target_audience,
      target_length         |-> target_length,
      source_material       |-> source_material,
      search_results        |-> << >>,
      background_knowledge  |-> None,
      key_concepts          |-> << >>,
      reference_links       |-> << >>,
      outline               |-> None,
      sections              |-> << >>,
      code_blocks           |-> << >>,
      images                |-> << >>,
      question_results      |-> << >>,
      all_sections_detailed |-> FALSE,
      questioning_count     |-> 0,
      review_score          |-> 0,
      review_issues         |-> << >>,
      review_approved       |-> FALSE,
      revision_count        |-> 0,
      final_markdown        |-> None,
      final_html            |-> None,
      output_folder         |-> None,
      error                 |-> None ]

\* BlogGenerator._deepen_content_node as one call: how it can end, the state it
\* worked on and, when it returns, the enhance_section calls it made.
_deepen_content_call(st) ==
    LET counted == [st EXCEPT !.questioning_count = Get(st, "questioning_count", 0) + 1]
    IN  { [kind |-> "return", state |-> [counted EXCEPT !.sections = r.sections],
           calls |-> r.calls]
          : r \in EnhanceLoop(counted.sections, sections_to_deepen(st), << >>) }
        \cup { [kind |-> "raise", state |-> s, calls |-> << >>]
               : s \in _deepen_content_raises(st) }

\* BlogGenerator._revision_node as one call: how it can end, the state it
\* worked on and, when it returns, the enhance_section calls it made.
_revision_call(st) ==
    LET counted == [st EXCEPT !.revision_count = Get(st, "revision_count", 0) + 1]
    IN  { [kind |-> "return", state |-> [counted EXCEPT !.sections = r.sections],
           calls |-> r.calls]
          : r \in EnhanceLoop(counted.sections, revision_points(st), << >>) }
        \cup { [kind |-> "raise", state |-> s, calls |-> << >>]
               : s \in _revision_raises(st) }

\* The review issues Revise is called on: any section ids (MaxDeepen + 1 names
\* no section), descriptions and suggestions.
RevisionIssues ==
    [section_id : 1..(MaxDeepen + 1), description : {"vague", "wrong"},
     suggestion : {"explain"}]

\* The states Revise is called on.
RevisionInputs ==
    { [create_initial_state EXCEPT
          !.outline = Some(n),
          !.sections = [i \in 1..n |-> [id |-> i, title |-> "title", content |-> "written",
                                       image_ids |-> << >>, code_ids |-> << >>]],
          !.question_results = [i \in 1..n |-> [section_id |-> i,
                                                is_detailed_enough |-> FALSE,
                                                vague_points |-> 1]],
          !.review_issues = issues,
          !.revision_count = c]
      : n \in 0..MaxDeepen, issues \in SeqsUpTo(RevisionIssues, MaxDeepen), c \in 0..1 }

\* The question results Deepen is called on: any section ids (MaxDeepen + 1
\* names no section), verdicts and numbers of vague points.
DeepenResults ==
    [section_id : 1..(MaxDeepen + 1), is_detailed_enough : BOOLEAN, vague_points : 0..1]

\* The states Deepen is called on: sections as write_section returns them.
DeepenInputs ==
    { [create_initial_state EXCEPT
          !.outline = Some(n),
          !.sections = [i \in 1..n |-> [id |-> i, title |-> "title", content |-> "written",
                                       image_ids |-> << >>, code_ids |-> << >>]],
          !.question_results = qr,
          !.questioning_count = c,
          !.review_issues = <<[section_id |-> 1]>>]
      : n \in 0..MaxDeepen, qr \in SeqsUpTo(DeepenResults, MaxDeepen), c \in 0..1 }

\* Largest number of sections of the outline Writer is called on.
MaxOutline == 2

\* WriterAgent.write_section when llm.chat returned: id and title are the
\* outline section's, the lists start empty.
write_section(section_outline) ==
    [id |-> section_outline.id, title |-> section_outline.title,
     content |-> "written", image_ids |-> << >>, code_ids |-> << >>]

write_sections_on(sections_outline, i, sections, attempts) ==
    IF i > Len(sections_outline)
    THEN { [sections |-> sections, error |-> None, attempts |-> attempts] }
    ELSE { [sections |-> sections \o [j \in 1..(Len(sections_outline) - i) |->
                                        write_section(sections_outline[i + j])],
            error |-> Some("section failed"),
            attempts |-> attempts \o [j \in 1..(Len(sections_outline) - i + 1) |->
                                        [section |-> i + j - 1,
                                         outcome |-> IF j = 1 THEN "raised"
                                                     ELSE "returned"]]] }

\* WriterAgent.run, the loop over the outline's sections from the i-th on:
\* write_section returns (the section is appended) or raises (error is set and
\* the loop left). `attempts` is the history of the write_section calls.
RECURSIVE WriteSections(_, _, _, _)
WriteSections(sections_outline, i, sections, attempts) ==
    IF i > Len(sections_outline)
    THEN { [sections |-> sections, error |-> None, attempts |-> attempts] }
    ELSE WriteSections(sections_outline, i + 1,
                       Append(sections, write_section(sections_outline[i])),
                       Append(attempts, [section |-> i, outcome |-> "returned"]))
         \cup { [sections |-> sections, error |-> Some("section failed"),
                 attempts |-> Append(attempts, [section |-> i, outcome |-> "raised"])] }

writer_run_resets_sections(st) ==
    { [kind |-> "return", attempts |-> << >>,
       state |-> [st EXCEPT !.sections = << >>,
                            !.error = IF st.error # None THEN st.error
                                      ELSE Some("no outline")]] }

\* The guards of WriterAgent.run: the state as it is when error is set; error
\* set, and nothing else, when there is no outline.
writer_run_guarded(st) ==
    IF st.error # None
    THEN { [kind |-> "return", state |-> st, attempts |-> << >>] }
    ELSE { [kind |-> "return", state |-> [st EXCEPT !.error = Some("no outline")],
            attempts |-> << >>] }

\* WriterAgent.run as one call: the state it returns and the write_section
\* calls it made.
writer_run_call(st) ==
    IF st.error # None \/ st.outline = None
    THEN writer_run_guarded(st)
    ELSE { [kind |-> "return",
            state |-> [st EXCEPT !.sections = r.sections,
                                 !.error = IF r.error = None THEN @ ELSE r.error],
            attempts |-> r.attempts]
           : r \in WriteSections(st.outline[1], 1, << >>, << >>) }

\* The states Writer is called on: with or without an error of an earlier
\* step, with or without an outline (sections of any ids), with
\* or without sections left from before.
OutlineSections == [id : 1..(MaxOutline + 1), title : {"title"}]
WriterInputs ==
    { [create_initial_state EXCEPT !.background_knowledge = Some("summary"),
                                   !.outline = o, !.error = e, !.sections = p]
      : o \in {None} \cup { Some(q) : q \in SeqsUpTo(OutlineSections, MaxOutline) },
        e \in {None, Some("planner")},
        p \in { << >>, <<WrittenSection(1, "written")>> } }

\* What llm.chat gives ReviewerAgent.review: it raises, or returns a text that
\* json.loads rejects, or a JSON object holding any of the keys score, approved
\* and issues.
ReviewKeys == {"score", "approved", "issues"}
ReviewAnswers ==
    { [kind |-> "raised"], [kind |-> "unparsable"] }
    \cup { [kind |-> "json", result |-> [k \in K |-> r[k]]]
           : K \in SUBSET ReviewKeys, r \in Reviews }

review_rejects_when_failed(answer) ==
    IF answer.kind = "json"
    THEN [score    |-> Get(answer.result, "score", DefaultScore),
          approved |-> Get(answer.result, "approved", TRUE),
          issues   |-> Get(answer.result, "issues", << >>)]
    ELSE [score |-> 0, approved |-> FALSE, issues |-> << >>]

\* ReviewerAgent.review: the answer's fields with their defaults; whatever the
\* try block raises is logged and answered by an approval.
review(answer) ==
    IF answer.kind = "json"
    THEN [score    |-> Get(answer.result, "score", DefaultScore),
          approved |-> Get(answer.result, "approved", TRUE),
          issues   |-> Get(answer.result, "issues", << >>)]
    ELSE [score |-> DefaultScore, approved |-> TRUE, issues |-> << >>]

\* ReviewerAgent.run as one call.
reviewer_run_call(st, answer) ==
    LET r == review(answer)
    IN  { [kind |-> "return",
           state |-> [st EXCEPT !.review_score = r.score,
                                !.review_approved = r.approved,
                                !.review_issues = r.issues]] }

\* The states Reviewer is called on: first or after a revision that followed a
\* rejecting review, with or without an error of an earlier step.
ReviewerInputs ==
    { [create_initial_state EXCEPT
          !.outline = Some(1),
          !.sections = <<WrittenSection(1, "written")>>,
          !.review_approved = a,
          !.review_issues = IF c = 0 THEN << >> ELSE <<[section_id |-> 1]>>,
          !.revision_count = c,
          !.error = e]
      : a \in BOOLEAN, c \in 0..MaxRounds, e \in {None, Some("section failed")} }

\* The calls drawn.
PureCalls ==
    { [fn |-> "enhance_section", original_content |-> c, vague_points |-> v]
      : c \in Contents, v \in 0..MaxVaguePoints }
    \cup { [fn |-> "search", search_service |-> TRUE, responses |-> r, max_results |-> m]
           : r \in UNION { ResponseSeqs(k, MaxHits) : k \in 0..MaxQueries }, m \in 1..MaxKept }
    \cup { [fn |-> "search", search_service |-> FALSE, responses |-> << >>, max_results |-> m]
           : m \in 1..MaxKept }
    \cup { [fn |-> "create_initial_state", topic |-> t, article_type |-> a,
            target_audience |-> u, target_length |-> l, source_material |-> s]
           : t \in {"", "Redis"}, a \in {None, Some("tutorial"), Some("comparison")},
             u \in {None, Some("intermediate"), Some("beginner")},
             l \in {None, Some("medium"), Some("short")},
             s \in {None, Some("notes")} }
    \cup { [fn |-> "_deepen_content_node", state |-> st] : st \in DeepenInputs }
    \cup { [fn |-> "_revision_node", state |-> st] : st \in RevisionInputs }
    \cup { [fn |-> "WriterAgent.run", state |-> st] : st \in WriterInputs }
    \cup { [fn |-> "ReviewerAgent.run", state |-> st, answer |-> a]
           : st \in ReviewerInputs, a \in ReviewAnswers }
    \cup { [fn |-> "CoderAgent.run", state |-> st] : st \in RefStates }
    \cup { [fn |-> "ArtistAgent.run", state |-> st] : st \in RefStates }

PureInit ==
    /\ fcall \in { Some(c) : c \in PureCalls }
    /\ fret = None
    /\ RoutersIdle
    /\ WorkflowIdle
    /\ TaskIdle

Calling(fn) == fcall[1].fn = fn

\* enhance_section(original_content, vague_points), and again on what it
\* returned with the same points.
CallEnhanceSection ==
    /\ Calling("enhance_section")
    /\ IF fret = None THEN TRUE
       ELSE fret[1].kind = "return" /\ fret[1].applied < MaxApplications
    /\ LET content == IF fret = None THEN fcall[1].original_content ELSE fret[1].value[1]
           asked   == IF fret = None THEN 0 ELSE fret[1].llm_calls
           applied == IF fret = None THEN 0 ELSE fret[1].applied
       IN  \E o \in enhance_section_call(content, fcall[1].vague_points) :
              fret' = Some([kind |-> o.kind, value |-> o.value,
                            llm_calls |-> asked + o.llm_calls, applied |-> applied + 1])
    /\ UNCHANGED <<fcall, rstate, rother, rcaps, rinit, rdecision, wfVars, taskVars>>

\* search(topic, target_audience, max_results) with the search service
\* answering `responses`.
CallSearch ==
    /\ Calling("search")
    /\ fret = None
    /\ fret' = Some([kind |-> "return",
                     value |-> search(fcall[1].search_service, fcall[1].responses,
                                      fcall[1].max_results)])
    /\ UNCHANGED <<fcall, rstate, rother, rcaps, rinit, rdecision, wfVars, taskVars>>

\* create_initial_state(topic, ...), the parameters left out taking their defaults.
CallCreateInitialState ==
    /\ Calling("create_initial_state")
    /\ fret = None
    /\ fret' = Some([kind |-> "return",
                     value |-> create_initial_state_with(
                                   fcall[1].topic,
                                   Given(fcall[1].article_type, "tutorial"),
                                   Given(fcall[1].target_audience, "intermediate"),
                                   Given(fcall[1].target_length, "medium"),
                                   fcall[1].source_material)])
    /\ UNCHANGED <<fcall, rstate, rother, rcaps, rinit, rdecision, wfVars, taskVars>>

\* self._deepen_content_node(state).
CallDeepenContentNode ==
    /\ Calling("_deepen_content_node")
    /\ fret = None
    /\ \E o \in _deepen_content_call(fcall[1].state) : fret' = Some(o)
    /\ UNCHANGED <<fcall, rstate, rother, rcaps, rinit, rdecision, wfVars, taskVars>>

\* self._revision_node(state).
CallRevisionNode ==
    /\ Calling("_revision_node")
    /\ fret = None
    /\ \E o \in _revision_call(fcall[1].state) : fret' = Some(o)
    /\ UNCHANGED <<fcall, rstate, rother, rcaps, rinit, rdecision, wfVars, taskVars>>

\* self.writer.run(state).
CallWriterRun ==
    /\ Calling("WriterAgent.run")
    /\ fret = None
    /\ \E o \in writer_run_call(fcall[1].state) : fret' = Some(o)
    /\ UNCHANGED <<fcall, rstate, rother, rcaps, rinit, rdecision, wfVars, taskVars>>

\* self.reviewer.run(state).
CallReviewerRun ==
    /\ Calling("ReviewerAgent.run")
    /\ fret = None
    /\ \E o \in reviewer_run_call(fcall[1].state, fcall[1].answer) : fret' = Some(o)
    /\ UNCHANGED <<fcall, rstate, rother, rcaps, rinit, rdecision, wfVars, taskVars>>

\* self.coder.run(state).
CallCoderRun ==
    /\ Calling("CoderAgent.run")
    /\ fret = None
    /\ \E o \in coder_run_call(fcall[1].state) : fret' = Some(o)
    /\ UNCHANGED <<fcall, rstate, rother, rcaps, rinit, rdecision, wfVars, taskVars>>

\* self.artist.run(state).
CallArtistRun ==
    /\ Calling("ArtistAgent.run")
    /\ fret = None
    /\ \E o \in artist_run_call(fcall[1].state) : fret' = Some(o)
    /\ UNCHANGED <<fcall, rstate, rother, rcaps, rinit, rdecision, wfVars, taskVars>>

PureNext ==
    \/ CallEnhanceSection
    \/ CallSearch
    \/ CallCreateInitialState
    \/ CallDeepenContentNode
    \/ CallRevisionNode
    \/ CallWriterRun
    \/ CallReviewerRun
    \/ CallCoderRun
    \/ CallArtistRun

PureSpec == PureInit /\ [][PureNext]_vars

FunctionReturned(fn) == fret # None /\ Calling(fn) /\ fret[1].kind = "return"

\* C24: enhance_section called with an empty vague-points list returns its
\* original_content argument unchanged and makes no call to the language model,
\* for every original content, and so does every further application of it to
\* its own result: any number of applications is the identity.
EnhanceWithNoPointsIsIdentity ==
    (fret # None /\ Calling("enhance_section") /\ fcall[1].vague_points = 0)
        => /\ fret[1].kind = "return"
           /\ fret[1].value = Some(fcall[1].original_content)
           /\ fret[1].llm_calls = 0

\* C24 witness: enhance_section has been applied more than once to a written
\* content with no vague point.
EnhancedTwiceWithNoPoints ==
    /\ fret # None /\ Calling("enhance_section")
    /\ fcall[1].vague_points = 0 /\ fcall[1].original_content = "written"
    /\ fret[1].applied >= 2

\* The position in `items` of the entry `item` (entries differ by their titles).
IndexOf(items, item) == CHOOSE i \in DOMAIN items : items[i] = item

\* The positions of all_results holding the first entry with some URL.
FirstOccurrences(items) ==
    { i \in DOMAIN items :
         items[i].url # "" /\ \A j \in 1..(i - 1) : items[j].url # items[i].url }

\* C26: the results search returns hold no two entries with the same URL; each
\* of them is the first entry with its URL in the concatenated query results,
\* and they stand in the order of those first occurrences. (They are the first
\* max_results of the first occurrences: entries without a URL are left out.)
SearchResultsUniqueByUrl ==
    FunctionReturned("search") =>
        LET all  == all_results(fcall[1].responses)
            out  == fret[1].value
            kept == { i \in FirstOccurrences(all) :
                         Cardinality({ j \in FirstOccurrences(all) : j < i })
                             < fcall[1].max_results }
        IN  /\ \A i, j \in DOMAIN out : i # j => out[i].url # out[j].url
            /\ \A k \in DOMAIN out :
                  /\ \E i \in DOMAIN all : all[i] = out[k]
                  /\ IndexOf(all, out[k]) \in FirstOccurrences(all)
            /\ \A i, j \in DOMAIN out :
                  i < j => IndexOf(all, out[i]) < IndexOf(all, out[j])
            /\ fcall[1].search_service
                  => { IndexOf(all, out[k]) : k \in DOMAIN out } = kept

\* C26 witness: the second query repeated a URL of the first and brought a new
\* one; search returned the first query's entry and the new one, in that order.
DuplicateUrlDropped ==
    /\ FunctionReturned("search")
    /\ Len(fcall[1].responses) = 2
    /\ fcall[1].responses[1].results = <<[url |-> "a", title |-> <<1, 1>>]>>
    /\ fcall[1].responses[2].results =
           <<[url |-> "a", title |-> <<2, 1>>], [url |-> "b", title |-> <<2, 2>>]>>
    /\ fret[1].value = <<[url |-> "a", title |-> <<1, 1>>], [url |-> "b", title |-> <<2, 2>>]>>

\* C27: create_initial_state returns a state whose topic, article_type,
\* target_audience, target_length and source_material equal the arguments (the
\* default for an argument left out), whose sections, code_blocks, images,
\* search_results, question_results and review_issues are empty, whose
\* questioning_count and revision_count are 0, and whose outline, final
\* outputs and error are unset.
InitialStateAsSpecified ==
    FunctionReturned("create_initial_state") =>
        LET st == fret[1].value
            a  == fcall[1]
        IN  /\ st.topic = a.topic
            /\ st.article_type = Given(a.article_type, "tutorial")
            /\ st.target_audience = Given(a.target_audience, "intermediate")
            /\ st.target_length = Given(a.target_length, "medium")
            /\ st.source_material = a.source_material
            /\ st.sections = << >> /\ st.code_blocks = << >> /\ st.images = << >>
            /\ st.search_results = << >> /\ st.question_results = << >>
            /\ st.review_issues = << >>
            /\ st.questioning_count = 0 /\ st.revision_count = 0
            /\ st.outline = None
            /\ st.final_markdown = None /\ st.final_html = None
            /\ st.output_folder = None
            /\ st.error = None

\* C27 witness: create_initial_state has returned for a call that gave every
\* argument a value other than its default.
InitialStateOfNonDefaults ==
    /\ FunctionReturned("create_initial_state")
    /\ fcall[1].topic = "Redis"
    /\ fcall[1].article_type = Some("comparison")
    /\ fcall[1].target_audience = Some("beginner")
    /\ fcall[1].target_length = Some("short")
    /\ fcall[1].source_material = Some("notes")

\* The question results that make Deepen call enhance_section on `st`: not
\* detailed enough, with the id of a section.
Due(st) ==
    SelectSeq(st.question_results,
              LAMBDA r : /\ ~r.is_detailed_enough
                         /\ \E i \in DOMAIN st.sections : st.sections[i].id = r.section_id)

\* C30: a Deepen that returns has called enhance_section exactly once for each
\* question result with is_detailed_enough = false whose section id is a
\* section's, on that section; every section whose id is not flagged keeps its
\* content, every section keeps its id, title and place, and apart from the
\* sections' contents and questioning_count no field of the state has changed.
DeepenEnhancesFlaggedOnly ==
    FunctionReturned("_deepen_content_node") =>
        LET old  == fcall[1].state
            new  == fret[1].state
            made == fret[1].calls
            due  == Due(old)
        IN  /\ Len(made) = Len(due)
            /\ \A k \in DOMAIN made :
                  /\ made[k].section_id = due[k].section_id
                  /\ made[k].vague_points = due[k].vague_points
                  /\ old.sections[made[k].section].id = due[k].section_id
            /\ Len(new.sections) = Len(old.sections)
            /\ \A i \in DOMAIN old.sections :
                  /\ [new.sections[i] EXCEPT !.content = old.sections[i].content]
                         = old.sections[i]
                  /\ (\A k \in DOMAIN due : due[k].section_id # old.sections[i].id)
                         => new.sections[i].content = old.sections[i].content
            /\ [new EXCEPT !.sections = old.sections,
                           !.questioning_count = old.questioning_count] = old

\* C30 witness: of two sections the first was flagged and the second found
\* detailed enough; Deepen made one call, the first section's content is the
\* enhanced one and the second's is as written.
OneOfTwoSectionsEnhanced ==
    /\ FunctionReturned("_deepen_content_node")
    /\ Len(fcall[1].state.sections) = 2
    /\ fcall[1].state.question_results =
           <<[section_id |-> 1, is_detailed_enough |-> FALSE, vague_points |-> 1],
             [section_id |-> 2, is_detailed_enough |-> TRUE, vague_points |-> 0]>>
    /\ Len(fret[1].calls) = 1
    /\ fret[1].state.sections[1].content = "enhanced"
    /\ fret[1].state.sections[2].content = "written"

\* ------------------------------------------- a run from Coder on

RefsInit ==
    /\ node = "coder"
    /\ state \in RefStates
    /\ max_questioning_rounds = 0
    /\ max_revision_rounds \in 0..MaxRounds
    /\ raised = FALSE
    /\ trace = <<"researcher", "planner", "writer", "questioner">>
    /\ qverdicts = << >>
    /\ rverdicts = << >>
    /\ atWrite = None
    /\ result = None
    /\ RouterIdle
    /\ TaskIdle

\* _coder_node, edge coder -> artist.
CoderRefsStep ==
    /\ Runs("coder")
    /\ state' \in CoderAgentRun(state)
    /\ node' = Edge("coder")
    /\ UNCHANGED <<raised, qverdicts, rverdicts, atWrite>>

\* _artist_node, edge artist -> reviewer; None.get raises without an outline.
ArtistRefsStep ==
    /\ Runs("artist")
    /\ \/ /\ state.outline # None
          /\ state' \in ArtistAgentRun(state)
          /\ node' = Edge("artist")
          /\ UNCHANGED raised
       \/ /\ state.outline = None
          /\ raised' = TRUE
          /\ UNCHANGED <<state, node>>
    /\ UNCHANGED <<qverdicts, rverdicts, atWrite>>

RefsNext ==
    \/ CoderRefsStep
    \/ ArtistRefsStep
    \/ ReviewerStep
    \/ RevisionStep
    \/ AssemblerStep
    \/ GenerateReturns

RefsSpec == RefsInit /\ [][RefsNext]_vars

\* The ids a resource list holds and the ids the sections list under `key`.
ResourceIds(resources) == { resources[m].id : m \in DOMAIN resources }
ListedIds(sections, key) ==
    UNION { { sections[i][key][k] : k \in DOMAIN sections[i][key] }
            : i \in DOMAIN sections }

\* C21: in every terminal state every id listed in a section's image_ids names
\* an entry of images, every id listed in a section's code_ids names an entry of
\* code_blocks, and every entry of images and of code_blocks is listed by a
\* section that is present in sections.
ReferencesResolve ==
    (node = "END" \/ raised) =>
        /\ ListedIds(state.sections, "image_ids") \subseteq ResourceIds(state.images)
        /\ ListedIds(state.sections, "code_ids") \subseteq ResourceIds(state.code_blocks)
        /\ ResourceIds(state.images) \subseteq ListedIds(state.sections, "image_ids")
        /\ ResourceIds(state.code_blocks) \subseteq ListedIds(state.sections, "code_ids")

\* The review issues that make Revise call enhance_section on `st`: those
\* with the id of a section.
Matching(st) ==
    SelectSeq(st.review_issues,
              LAMBDA r : \E i \in DOMAIN st.sections : st.sections[i].id = r.section_id)

\* C31: a Revise that returns has called enhance_section exactly once for each
\* review issue whose section id is a section's, on that section, with exactly
\* one vague point holding the issue's description and suggestion; issues that
\* name no section cause no call; every section named by no issue keeps its
\* content, every section keeps its id, title and place, and apart from the
\* sections' contents and revision_count no field of the state has changed.
ReviseEnhancesNamedOnly ==
    FunctionReturned("_revision_node") =>
        LET old  == fcall[1].state
            new  == fret[1].state
            made == fret[1].calls
            due  == Matching(old)
        IN  /\ Len(made) = Len(due)
            /\ \A k \in DOMAIN made :
                  /\ made[k].section_id = due[k].section_id
                  /\ old.sections[made[k].section].id = due[k].section_id
                  /\ made[k].vague_points = 1
                  /\ made[k].asked = <<[issue |-> due[k].description,
                                        question |-> due[k].suggestion]>>
            /\ Len(new.sections) = Len(old.sections)
            /\ \A i \in DOMAIN old.sections :
                  /\ [new.sections[i] EXCEPT !.content = old.sections[i].content]
                         = old.sections[i]
                  /\ (\A k \in DOMAIN due : due[k].section_id # old.sections[i].id)
                         => new.sections[i].content = old.sections[i].content
            /\ [new EXCEPT !.sections = old.sections,
                           !.revision_count = old.revision_count] = old

\* C31 witness: of two sections the second is named by an issue, and another
\* issue names no section; Revise made one call, the second section's content
\* is the enhanced one and the first's is as written.
OneIssueOfTwoMatched ==
    /\ FunctionReturned("_revision_node")
    /\ Len(fcall[1].state.sections) = 2
    /\ Len(fcall[1].state.review_issues) = 2
    /\ fcall[1].state.review_issues[1].section_id = 3
    /\ fcall[1].state.review_issues[2].section_id = 2
    /\ Len(fret[1].calls) = 1
    /\ fret[1].state.sections[1].content = "written"
    /\ fret[1].state.sections[2].content = "enhanced"

\* The attempts of a step that did not fail, in order, and those among them
\* made for the i-th section.
Kept(attempts, failures) == SelectSeq(attempts, LAMBDA a : a.outcome \notin failures)
KeptIn(attempts, failures, i) ==
    SelectSeq(attempts, LAMBDA a : a.outcome \notin failures /\ a.section = i)
IdsOf(attempts) == [k \in DOMAIN attempts |-> attempts[k].id]

\* Coder returns without touching error; code_blocks holds the generated codes
\* and no other, each section lists its own.
CoderKeepsAllButFailures(failures) ==
    (fret # None /\ Calling("CoderAgent.run")) =>
        LET old == fcall[1].state
            new == fret[1].state
            att == fret[1].attempts
        IN  /\ fret[1].kind = "return"
            /\ new.error = old.error
            /\ IdsOf(new.code_blocks) = IdsOf(Kept(att, failures))
            /\ \A i \in DOMAIN old.sections :
                  new.sections[i].code_ids
                      = old.sections[i].code_ids \o IdsOf(KeptIn(att, failures, i))

\* Artist, run on a state with an outline, returns without touching error;
\* images holds the images generated without failure and no other, each
\* section lists its own.
ArtistKeepsAllButFailures(failures) ==
    (fret # None /\ Calling("ArtistAgent.run") /\ fcall[1].state.outline # None) =>
        LET old == fcall[1].state
            new == fret[1].state
            att == fret[1].attempts
        IN  /\ fret[1].kind = "return"
            /\ new.error = old.error
            /\ IdsOf(new.images) = IdsOf(Kept(att, failures))
            /\ \A i \in DOMAIN old.sections :
                  new.sections[i].image_ids
                      = old.sections[i].image_ids \o IdsOf(KeptIn(att, failures, i))

\* search returns what it returns when the queries that raised are left out.
SearchKeepsAllButFailures ==
    (fret # None /\ Calling("search")) =>
        /\ fret[1].kind = "return"
        /\ fret[1].value =
               search(fcall[1].search_service,
                      SelectSeq(fcall[1].responses, LAMBDA r : r.kind # "raise"),
                      fcall[1].max_results)

\* C32: in Coder, Artist and the Researcher's search a failed sub-operation
\* (a code generation or an image generation that raises, an image whose
\* rendering fails, a search query that raises) leaves the step returning
\* normally with error as it was; the results of the other sub-operations are
\* kept, and the failed item is in none of code_blocks, images, the search
\* results and the sections' code_ids and image_ids.
SubOperationFailuresExcluded ==
    /\ CoderKeepsAllButFailures({"raised"})
    /\ ArtistKeepsAllButFailures({"raised", "render failed"})
    /\ SearchKeepsAllButFailures

\* C33: Writer called on a state with error set returns it with every field
\* as it was and calls write_section for no section; called without an error
\* and without an outline it does not raise, sets error and changes no other
\* field (sections stay as they were), again without a write_section call.
WriterGuardsAreInert ==
    (fret # None /\ Calling("WriterAgent.run")) =>
        LET old == fcall[1].state
            new == fret[1].state
        IN  /\ old.error # None
                  => /\ fret[1].kind = "return"
                     /\ new = old
                     /\ fret[1].attempts = << >>
            /\ (old.error = None /\ old.outline = None)
                  => /\ fret[1].kind = "return"
                     /\ new.error # None
                     /\ [new EXCEPT !.error = None] = old
                     /\ fret[1].attempts = << >>

\* C33 witness: Writer has returned from a call without an outline on a state
\* that held a section, and from then on error is set.
WriterReturnedWithoutOutline ==
    /\ fret # None /\ Calling("WriterAgent.run")
    /\ fcall[1].state.outline = None /\ fcall[1].state.error = None
    /\ fcall[1].state.sections # << >>
    /\ fret[1].state.error # None

\* C34: Writer run without an error on an outline of n sections: when no
\* write_section call fails, sections has exactly n entries whose ids are the
\* outline sections' ids in the same order and error stays unset; when the
\* call for the k-th section fails, error is set, no later section is
\* attempted and sections holds exactly the k-1 sections written before it,
\* in outline order.
WriterSectionsFollowOutline ==
    (fret # None /\ Calling("WriterAgent.run")
       /\ fcall[1].state.error = None /\ fcall[1].state.outline # None) =>
        LET outline  == fcall[1].state.outline[1]
            new      == fret[1].state
            att      == fret[1].attempts
            failures == { k \in DOMAIN att : att[k].outcome = "raised" }
        IN  /\ fret[1].kind = "return"
            /\ \A k \in DOMAIN att : att[k].section = k
            /\ \A i \in DOMAIN new.sections :
                  i <= Len(outline) /\ new.sections[i].id = outline[i].id
            /\ IF failures = {}
               THEN /\ new.error = None
                    /\ Len(att) = Len(outline)
                    /\ Len(new.sections) = Len(outline)
               ELSE \E k \in failures :
                       /\ failures = {k}
                       /\ new.error # None
                       /\ Len(att) = k
                       /\ Len(new.sections) = k - 1

\* C34 witness: on an outline of two sections the second write_section call
\* failed; sections holds the first section only.
SecondSectionFailed ==
    /\ fret # None /\ Calling("WriterAgent.run")
    /\ fcall[1].state.error = None /\ fcall[1].state.outline # None
    /\ Len(fcall[1].state.outline[1]) = 2
    /\ fcall[1].state.outline[1][1].id = 2
    /\ Len(fret[1].attempts) = 2 /\ fret[1].attempts[2].outcome = "raised"
    /\ Len(fret[1].state.sections) = 1 /\ fret[1].state.sections[1].id = 2

\* C38: when Reviewer's llm.chat raises or json.loads rejects the answer, the
\* run returns (nothing is raised) with the review recorded as approved, score
\* 80, no issues; the review router then goes to Assemble whatever the cap,
\* and neither revision_count nor error is changed by that run.
FailedReviewApproves ==
    (fret # None /\ Calling("ReviewerAgent.run")
       /\ fcall[1].answer.kind \in {"raised", "unparsable"}) =>
        LET old == fcall[1].state
            new == fret[1].state
        IN  /\ fret[1].kind = "return"
            /\ new.review_approved = TRUE
            /\ new.review_score = 80
            /\ new.review_issues = << >>
            /\ \A cap \in 0..MaxRounds : _should_revise(new, cap) = "assemble"
            /\ new.revision_count = old.revision_count
            /\ new.error = old.error

\* C38 witness: Reviewer has returned from a run whose answer did not parse,
\* after one revision, on a state that held a rejecting review with an issue.
UnparsableReviewReturned ==
    /\ fret # None /\ Calling("ReviewerAgent.run")
    /\ fcall[1].answer.kind = "unparsable"
    /\ fcall[1].state.revision_count = 1
    /\ ~fcall[1].state.review_approved /\ fcall[1].state.review_issues # << >>
    /\ fret[1].state.review_approved

\* The ids of a list of resources are keys: no two entries share one.
IdsAreKeys(resources) ==
    \A i, j \in DOMAIN resources : resources[i].id = resources[j].id => i = j

\* C35: in every terminal state of a run (generate has returned), no two
\* entries of code_blocks share an id and no two entries of images share an
\* id, whatever the sections hold and whichever generations failed.
ResourceIdsAreKeys ==
    result # None => IdsAreKeys(state.code_blocks) /\ IdsAreKeys(state.images)

\* run_pipeline is at its return statement.
PipelineReturned == calls # << >> /\ Head(calls).op = "return" /\ sending = None

\* No cancel_task call took effect on the task or is about to.
NotCancelled ==
    /\ cancelling = "idle"
    /\ \A i \in DOMAIN queue : queue[i].event # "cancelled"

\* C36: a run_pipeline call that is not cancelled ends with exactly one
\* terminal event on the queue, and it is the last event: a complete event
\* with status completed and success = True returned, or a non-recoverable
\* error event with status failed and success = False returned; no event is
\* appended while the task is still pending (set_running comes first); and a
\* run that met a recoverable image error and no other failure ends with the
\* complete event.
PipelineEndsWithOneTerminalEvent ==
    /\ (queue # << >> \/ sending # None) => task.status # "pending"
    /\ (PipelineReturned /\ NotCancelled) =>
          LET terminals == { i \in DOMAIN queue : TerminalEvent(queue[i]) }
              last      == queue[Len(queue)]
          IN  /\ terminals = {Len(queue)}
              /\ IF Head(calls).success
                 THEN last.event = "complete" /\ task.status = "completed"
                 ELSE last.event = "error" /\ task.status = "failed"
              /\ ((\E i \in DOMAIN queue :
                      queue[i].event = "error" /\ queue[i].recoverable)
                  /\ (\A i \in DOMAIN queue :
                      queue[i].event = "error" => queue[i].stage # "unknown"))
                    => Head(calls).success

\* C36 witness: a run that was not cancelled has returned success = True after
\* a recoverable image error; the complete event is the last of the queue.
CompletedAfterImageError ==
    /\ PipelineReturned /\ NotCancelled
    /\ Head(calls).success
    /\ \E i \in DOMAIN queue : queue[i].event = "error" /\ queue[i].recoverable
    /\ queue[Len(queue)].event = "complete"

\* C37: within one run_pipeline execution the overall_progress values of
\* successive progress events never decrease, from the first progress event
\* of analyze to the last progress event before complete.
OverallProgressNeverDecreases ==
    \A i, j \in DOMAIN queue :
        (i < j /\ queue[i].event = "progress" /\ queue[j].event = "progress")
            => queue[i].overall_progress <= queue[j].overall_progress

\* The task ids a map of the TaskManager holds.
Keys(map) == { id \in DOMAIN map : map[id] # None }

UnknownIdIsIgnored ==
    (called # None /\ called[1].id # Known) =>
        /\ called[1].call.op \in {"send_progress", "send_stream", "send_result",
                                  "send_complete", "send_error", "set_running",
                                  "cancel_task"}
        /\ task = before[1].task
        /\ queue = before[1].queue
        /\ called[1].call.op = "cancel_task" <=> called[1].ret = Some(FALSE)

\* C40 witness: send_complete on an id that is in neither map has returned
\* while the known task is running; the task is still running and its queue
\* is empty.
CompleteOnUnknownIdReturned ==
    /\ Returned("send_complete") /\ called[1].id # Known
    /\ before[1].task.status = "running"
    /\ task.status = "running" /\ queue = << >>

====
